---- MODULE Spec2Model ----
(***************************************************************************)
(* State-machine model of pyckup / call-e:                                 *)
(*   - the conversation engine (calle_core/llm_extractor.py, LLMExtractor) *)
(*     with its walker, its extraction chains and its filter threads;      *)
(*   - the softphone pool (calle_core/softphone.py, GroupAccount,          *)
(*     Softphone, SoftphoneGroup) and the listener workers                 *)
(*     (calle_core/call_e.py, __softphone_listen);                         *)
(*   - the media operations of one softphone (forward_call, say,           *)
(*     play_audio, listen) with its two media players and the TTS cache;   *)
(*   - the contact bookkeeping of outgoing calls (calle_core/call_e.py,    *)
(*     call_contact, call_contacts, __perform_outgoing_call);              *)
(*   - the dialogue loops of call_e that join listen and the engine's      *)
(*     steps on one call.                                                  *)
(***************************************************************************)
EXTENDS Integers, Sequences, FiniteSets, TLC

\* ------------------------------------------------------------------ bounds

\* longest entry path of the conversation configs that Init enumerates
MaxPathLen == 2
\* number of run_extraction_step calls the caller makes on one engine
MaxSteps == 3
\* LLMExtractor objects built from one conversation config
MaxExtractors == 2

\* ------------------------------------------------- conversation config data

Titles == {"t1", "t2"}

Item(type, interactive, arg, options) ==
    [type |-> type, interactive |-> interactive, arg |-> arg, options |-> options]

ReadItem(text, interactive) == Item("read", interactive, text, <<>>)
PromptItem(prompt) == Item("prompt", FALSE, prompt, <<>>)
PathItem(path) == Item("path", FALSE, path, <<>>)
InformationItem(title, interactive) == Item("information", interactive, title, <<>>)
ChoiceItem == Item("choice", FALSE, "coffee or tea?", [coffee |-> "opt_coffee", tea |-> "opt_tea"])
FunctionItem == Item("function", FALSE, "read_fibonacci", <<>>)
FunctionChoiceItem ==
    Item("function_choice", FALSE, "pick", [left |-> "opt_left", right |-> "opt_right"])

\* the items an entry path is built from
EntryItems ==
    { ReadItem("Hi", FALSE), ReadItem("Ready?", TRUE), PromptItem("greet"),
      PathItem("sub"), InformationItem("t1", FALSE), InformationItem("t2", TRUE),
      ChoiceItem, FunctionItem, FunctionChoiceItem }

SeqsUpTo(S, n) == UNION { [1..k -> S] : k \in 0..n }

\* "the last item in any sequence MUST NOT be interactive"; an item that owns
\* option lists occurs once (its option lists are objects of that one item)
ValidPath(p) ==
    /\ Len(p) > 0 => ~ p[Len(p)].interactive
    /\ \A i, j \in 1..Len(p) : (p[i].options # <<>> /\ p[i] = p[j]) => i = j

EntryPaths == { p \in SeqsUpTo(EntryItems, MaxPathLen) : Len(p) > 0 /\ ValidPath(p) }

AbortedPaths ==
    { <<>>,
      << ReadItem("Sorry, goodbye", FALSE) >>,
      << ReadItem("Sorry", TRUE), ReadItem("goodbye", FALSE) >>,
      << InformationItem("t2", FALSE) >>,
      << FunctionItem >> }

\* conversation_config["conversation_paths"] plus the option lists of the
\* choice / function_choice items, each list an object named by its id
ConfigOf(entry, abortedPath) ==
    [ entry     |-> entry,
      aborted   |-> abortedPath,
      sub       |-> << InformationItem("t1", FALSE), FunctionItem >>,
      opt_coffee |-> << ReadItem("coffee", FALSE) >>,
      opt_tea   |-> << ReadItem("tea", TRUE), FunctionItem >>,
      opt_left  |-> << ReadItem("left", FALSE) >>,
      opt_right |-> << InformationItem("t2", FALSE), ReadItem("right", FALSE) >> ]

ListIds == {"entry", "aborted", "sub", "opt_coffee", "opt_tea", "opt_left", "opt_right"}

\* ------------------------------------------------------------- engine state

VARIABLES
    conversation_config,    \* the engine's deep copy: list id -> remaining items
    conversation_items,     \* id of the list self.__conversation_items refers to
    current_item,           \* self.__current_item
    status,                 \* self.status
    extracted_information,  \* self.__extracted_information: title -> value
    information_lock,       \* self.__information_lock: "free" or the holder
    filter_waiting,         \* started filter threads not yet holding the lock
    walker,                 \* "idle" (no step running), "walking"
    aborted,                \* the aborted argument of the innermost walker call
    collected_responses,    \* fragments collected by the running step
    returned,               \* what the last step call returned
    steps,                  \* number of run_extraction_step calls so far
    call_status,            \* self.status when the running/last step was called
    verified_yes,           \* titles whose verification returned YES
    plugin_call,            \* the information mapping the last plugin was passed
    information_read,       \* what the last get_information() call returned
    conversation_template,  \* the conversation_config object given to the constructor
    extractors,             \* LLMExtractor objects built from that object so far
    verification,           \* the verifier's output in the data of the running chain
    user_input              \* the user_input of the running / last step call

engine_vars ==
    << conversation_config, conversation_items, current_item, status,
       extracted_information, information_lock, filter_waiting, walker, aborted,
       collected_responses, returned, steps, call_status, verified_yes,
       plugin_call, information_read, conversation_template, extractors,
       verification, user_input >>

\* ---------------------------------------------------------- telephony state

\* num_devices of start_listening: the sessions of the pool, in pool order
NumDevices == 2
\* SoftphoneCall objects (call legs) created over a run
MaxLegs == 3

Devices == 1..NumDevices
Legs == 1..MaxLegs
\* None, for a session's leg and for a leg's softphone
NoCall == 0

VARIABLES
    active_call,      \* Softphone.active_call, per session: a leg or NoCall
    paired_call,      \* Softphone.__paired_call, per session: a leg or NoCall
    call_state,       \* per leg: the invite state the SIP library reports
    call_softphone,   \* SoftphoneCall.softphone, per leg: a session or NoCall
    call_is_paired,   \* SoftphoneCall.__is_paired, per leg
    call_op,          \* per leg: the first operation made on it and its status code
    is_listening,     \* SoftphoneGroup.is_listening
    worker,           \* per session: where its listener thread is
    live_workers,     \* per session: listener threads started and not ended
    forwarding,       \* per session: the leg a running forward_call waits for, or NoCall
    forward_result,   \* per session: what the last forward_call returned
    artifacts         \* per session: scratch files artifacts/{id}* exist

forward_vars == << forwarding, forward_result >>

pool_vars ==
    << active_call, paired_call, call_state, call_softphone, call_is_paired,
       call_op, is_listening, worker, live_workers, forward_vars, artifacts >>

VARIABLES
    media_player_1,   \* Softphone.__media_player_1, per session
    media_player_2,   \* Softphone.__media_player_2, per session
    say,              \* per session: the running / last say call
    listen,           \* per session: the running / last listen call
    cache,            \* the cache directory: message hash -> stored audio
    player_started    \* per session: how the last player was started

media_vars ==
    << media_player_1, media_player_2, say, listen, cache, player_started >>

VARIABLES
    status_table,     \* table {conversation_title}_status: contact_id -> row
    results_table,    \* table {conversation_title}: contact_id -> the columns of its rows
    information_titles, \* titles of the conversation config's items
    contact_run,      \* the running / last call_contacts call
    last_call,        \* the last __perform_outgoing_call for a contact
    persisted_status  \* the status table as of the last commit of the connection

db_vars ==
    << status_table, results_table, information_titles, contact_run, last_call,
       persisted_status >>

vars == << engine_vars, pool_vars, media_vars, db_vars >>

\* self.__current_item of an object whose constructor raised before setting it
NoItem == Item("none", FALSE, "", <<>>)

\* __load_conversation_path("entry") succeeds on the config: the key exists
\* (else KeyError) and its list has an item to pop (else IndexError)
EntryLoads(config) == "entry" \in DOMAIN config /\ Len(config["entry"]) > 0

\* LLMExtractor.__init__(conversation_config = template): the fields of the new
\* object, conversation_config being its deep copy after
\* __load_conversation_path("entry"); walker "unconstructed": __init__ raised
\* and there is no object to run a step on
Extractor(template) ==
    [ conversation_config |->
          IF EntryLoads(template) THEN [template EXCEPT !["entry"] = Tail(@)]
          ELSE template,
      conversation_items |-> "entry",
      current_item |-> IF EntryLoads(template) THEN Head(template["entry"]) ELSE NoItem,
      walker |-> IF EntryLoads(template) THEN "idle" ELSE "unconstructed" ]

\* the state after LLMExtractor(template), the first engine built from template
ExtractorConstructed(template) ==
        /\ conversation_template = template
        /\ extractors = 1
        /\ conversation_config = Extractor(template).conversation_config
        /\ conversation_items = Extractor(template).conversation_items
        /\ current_item = Extractor(template).current_item
        /\ status = "IN_PROGRESS"
        /\ extracted_information = [t \in Titles |-> "ABSENT"]
        /\ information_lock = "free"
        /\ filter_waiting = [t \in Titles |-> 0]
        /\ walker = Extractor(template).walker
        /\ aborted = FALSE
        /\ collected_responses = <<>>
        /\ returned = [kind |-> "none", fragments |-> <<>>]
        /\ steps = 0
        /\ call_status = "IN_PROGRESS"
        /\ verified_yes = {}
        /\ plugin_call = [called |-> FALSE, keys |-> {}, verified |-> {}]
        /\ information_read = [called |-> FALSE, status |-> "IN_PROGRESS",
                               keys |-> {}, verified |-> {}]
        /\ verification = ""
        /\ user_input = ""

\* LLMExtractor.__init__ and __load_conversation_path("entry")
EngineConstructed(entry, ab) == ExtractorConstructed(ConfigOf(entry, ab))

EngineInit == \E entry \in EntryPaths, ab \in AbortedPaths : EngineConstructed(entry, ab)

\* mutant: the engine keeps the object it was given, without copying it
TemplateAfter_Shared(config) == config

\* the object given to the constructor once the engine's lists are `config`:
\* the engine pops from the lists of its copy.deepcopy, which are other objects
TemplateAfter(config) == conversation_template

\* ------------------------------------------------------- engine: the walker

\* mutant: every fragment is labelled as read out
Fragment_AsRead(text, kind) == [text |-> text, kind |-> "read"]

\* a response (message, type) of the list a step returns
Fragment(text, kind) == [text |-> text, kind |-> kind]

\* the keys of self.__extracted_information
InformationKeys == { t \in Titles : extracted_information[t] # "ABSENT" }

\* leaving __process_conversation_items at the outermost call: the step returns
Return(coll) ==
    /\ walker' = "idle"
    /\ returned' = [kind |-> "returned", fragments |-> coll]
    /\ collected_responses' = <<>>

\* an exception leaves run_extraction_step
Raise ==
    /\ walker' = "idle"
    /\ returned' = [kind |-> "raised", fragments |-> <<>>]
    /\ collected_responses' = <<>>

\* the while loop goes on with the next item
Continue(coll) ==
    /\ walker' = "walking"
    /\ collected_responses' = coll
    /\ UNCHANGED returned

\* mutant: the next item is read from the list and left in it
PopFrom_Keep(ref) ==
    /\ current_item' = Head(conversation_config[ref])
    /\ conversation_config' = conversation_config
    /\ conversation_items' = ref

\* self.__current_item = self.__conversation_items.pop(0), the list being `ref`
PopFrom(ref) ==
    /\ current_item' = Head(conversation_config[ref])
    /\ conversation_config' = [conversation_config EXCEPT ![ref] = Tail(@)]
    /\ conversation_items' = ref

\* mutant: the walker breaks after every item
IsInteractive_Always(item) == TRUE

\* self.__current_item.get("interactive", False)
IsInteractive(item) == item.interactive

\* status written when the queue is used up
StatusAtExhaustion(isAborted, st) == IF ~ isAborted THEN "COMPLETED" ELSE st

\* the tail of the loop body: advance to the next item or finish
Advance(ref, coll) ==
    IF Len(conversation_config[ref]) > 0
    THEN /\ PopFrom(ref)
         /\ UNCHANGED status
         /\ IF IsInteractive(current_item) THEN Return(coll) ELSE Continue(coll)
    ELSE /\ status' = StatusAtExhaustion(aborted, status)
         /\ conversation_items' = ref
         /\ UNCHANGED << current_item, conversation_config >>
         /\ Return(coll)

\* run_extraction_step(user_input) up to the walker's loop: append_input=True,
\* aborted=False; the input is appended to the chat history
StepCalled(input) ==
    /\ user_input' = input
    /\ walker = "idle"
    /\ steps < MaxSteps
    /\ walker' = "walking"
    /\ steps' = steps + 1
    /\ call_status' = status
    /\ aborted' = FALSE
    /\ collected_responses' = <<>>
    /\ verification' = ""
    /\ UNCHANGED << conversation_config, conversation_items, current_item, status,
                    extracted_information, information_lock, filter_waiting,
                    returned, verified_yes, plugin_call, information_read,
                    conversation_template, extractors >>

\* what the callee said, as transcribed
Transcription == "transcription"

\* run_extraction_step called by the dialogue loops of call_e: with "" once
\* the call is picked up, then with what was heard
RunExtractionStep ==
    /\ UNCHANGED << pool_vars, media_vars, db_vars >>
    /\ StepCalled(IF steps = 0 THEN "" ELSE Transcription)

\* the LLM provider fails in a chain's invoke: nothing in the engine catches it
ProviderFails ==
    /\ Raise
    /\ UNCHANGED << conversation_config, conversation_items, current_item, status,
                    aborted >>

WalkRead ==
    /\ UNCHANGED << pool_vars, media_vars, db_vars, user_input >>
    /\ walker = "walking"
    /\ current_item.type = "read"
    /\ Advance(conversation_items,
               Append(collected_responses, Fragment(<<current_item.arg, "\n">>, "read")))
    /\ conversation_template' = TemplateAfter(conversation_config')
    /\ UNCHANGED << extracted_information, information_lock, filter_waiting, aborted,
                    steps, call_status, verified_yes, plugin_call, information_read,
                    extractors, verification >>

WalkPrompt ==
    /\ UNCHANGED << pool_vars, media_vars, db_vars, user_input >>
    /\ walker = "walking"
    /\ current_item.type = "prompt"
    /\ \E generated \in BOOLEAN :
        IF generated
        THEN Advance(conversation_items,
                     Append(collected_responses,
                            Fragment(<<"llm", current_item.arg, "\n">>, "prompt")))
        ELSE ProviderFails
    /\ conversation_template' = TemplateAfter(conversation_config')
    /\ UNCHANGED << extracted_information, information_lock, filter_waiting, aborted,
                    steps, call_status, verified_yes, plugin_call, information_read,
                    extractors, verification >>

\* mutant: a path item leaves the walker on the list it has
PathTarget_Stay(item) == conversation_items

\* conversation_config["conversation_paths"][self.__current_item["path"]]
PathTarget(item) == item.arg

WalkPath ==
    /\ UNCHANGED << pool_vars, media_vars, db_vars, user_input >>
    /\ walker = "walking"
    /\ current_item.type = "path"
    /\ Advance(PathTarget(current_item), collected_responses)
    /\ conversation_template' = TemplateAfter(conversation_config')
    /\ UNCHANGED << extracted_information, information_lock, filter_waiting, aborted,
                    steps, call_status, verified_yes, plugin_call, information_read,
                    extractors, verification >>

\* __extraction_aborted, reached from an information or a choice item of `kind`
ExtractionAborted(kind) ==
    /\ status' = "ABORTED"
    /\ IF "aborted" \notin DOMAIN conversation_config
       THEN \* KeyError: the config has no path of that name
            /\ Raise
            /\ UNCHANGED << conversation_config, conversation_items, current_item,
                            aborted >>
       ELSE IF Len(conversation_config["aborted"]) > 0
       THEN /\ PopFrom("aborted")
            /\ aborted' = TRUE
            /\ Continue(collected_responses)
       ELSE /\ conversation_items' = "aborted"
            /\ UNCHANGED << current_item, conversation_config, aborted >>
            /\ Return(Append(collected_responses, Fragment(<<>>, kind)))

\* mutant: the status is left as it is when the last item was an information
StatusAfterLastInformation_Kept == status

\* __information_extraction_successful with no item left: self.status
StatusAfterLastInformation == "COMPLETED"

\* __information_extraction_successful: start the filter thread, go on or finish
InformationExtractionSuccessful ==
    /\ filter_waiting' = [filter_waiting EXCEPT ![current_item.arg] = @ + 1]
    /\ IF Len(conversation_config[conversation_items]) > 0
       THEN /\ PopFrom(conversation_items)
            /\ aborted' = FALSE
            /\ UNCHANGED status
            /\ Continue(collected_responses)
       ELSE /\ status' = StatusAfterLastInformation
            /\ UNCHANGED << current_item, conversation_config, conversation_items, aborted >>
            /\ Return(Append(collected_responses, Fragment(<<>>, "information")))

InformationVerdicts == {"YES", "NO", "ABORT", "MAYBE"}

\* what a chain's invoke can come to: an output of the model, or no output
\* because the provider failed
NoOutput == "no output"

\* information_extraction_chain on the current information item
WalkInformation ==
    /\ UNCHANGED << pool_vars, media_vars, db_vars, user_input >>
    /\ walker = "walking"
    /\ current_item.type = "information"
    /\ \E verdict \in InformationVerdicts \cup {NoOutput}, generated \in BOOLEAN :
        /\ ~ generated => verdict = "NO"
        /\ verification' = IF verdict = NoOutput THEN "" ELSE verdict
        /\ IF verdict = NoOutput
           THEN /\ ProviderFails
                /\ UNCHANGED << filter_waiting, verified_yes >>
           ELSE IF verdict = "YES"
           THEN /\ verified_yes' = verified_yes \cup {current_item.arg}
                /\ InformationExtractionSuccessful
           ELSE IF verdict = "NO"
           THEN /\ IF generated
                   THEN /\ Return(Append(collected_responses,
                                         Fragment(<<"llm", current_item.arg>>,
                                                  "information")))
                        /\ UNCHANGED << conversation_config, conversation_items,
                                        current_item, status, aborted >>
                   ELSE ProviderFails
                /\ UNCHANGED << filter_waiting, verified_yes >>
           ELSE /\ ExtractionAborted("information")
                /\ UNCHANGED << filter_waiting, verified_yes >>
    /\ conversation_template' = TemplateAfter(conversation_config')
    /\ UNCHANGED << extracted_information, information_lock, steps, call_status, plugin_call,
                    information_read, extractors >>

ChoiceVerdicts == {"coffee", "tea", "##NONE##", "##ABORT##", "juice"}

\* mutant: the walker goes on with the list it had
OptionList_Kept(item, choice) == conversation_items

\* data["current_choice_options"][selected_choice]
OptionList(item, choice) == item.options[choice]

\* __choice_extraction_successful
ChoiceExtractionSuccessful(choice) ==
    IF choice \in DOMAIN current_item.options
          /\ Len(conversation_config[OptionList(current_item, choice)]) > 0
    THEN /\ PopFrom(OptionList(current_item, choice))
         /\ aborted' = FALSE
         /\ UNCHANGED status
         /\ Continue(collected_responses)
    ELSE \* KeyError (no such option) or IndexError (pop from an empty list)
         /\ Raise
         /\ UNCHANGED << conversation_config, conversation_items, current_item,
                         status, aborted >>

\* choice_extraction_chain on the current choice item
WalkChoice ==
    /\ UNCHANGED << pool_vars, media_vars, db_vars, user_input >>
    /\ walker = "walking"
    /\ current_item.type = "choice"
    /\ \E choice \in ChoiceVerdicts \cup {NoOutput}, generated \in BOOLEAN :
        /\ ~ generated => choice = "##NONE##"
        /\ verification' = IF choice = NoOutput THEN "" ELSE choice
        /\ IF choice = NoOutput
           THEN ProviderFails
           ELSE IF choice = "##NONE##"
           THEN IF generated
                THEN /\ Return(Append(collected_responses,
                                      Fragment(<<"llm", current_item.arg>>, "choice")))
                     /\ UNCHANGED << conversation_config, conversation_items,
                                     current_item, status, aborted >>
                ELSE ProviderFails
           ELSE IF choice = "##ABORT##"
           THEN ExtractionAborted("choice")
           ELSE ChoiceExtractionSuccessful(choice)
    /\ conversation_template' = TemplateAfter(conversation_config')
    /\ UNCHANGED << extracted_information, information_lock, filter_waiting, steps,
                    call_status, verified_yes, plugin_call, information_read,
                    extractors >>

\* the mapping a plugin is called with: self.__extracted_information as it is
\* when the walker has acquired and released the lock
PluginCall == [called |-> TRUE, keys |-> InformationKeys, verified |-> verified_yes]

WalkFunction ==
    /\ UNCHANGED << pool_vars, media_vars, db_vars, user_input >>
    /\ walker = "walking"
    /\ current_item.type = "function"
    /\ information_lock = "free"
    /\ plugin_call' = PluginCall
    /\ Advance(conversation_items,
               Append(collected_responses,
                      Fragment(<<"plugin", current_item.arg>>, "function")))
    /\ conversation_template' = TemplateAfter(conversation_config')
    /\ UNCHANGED << extracted_information, information_lock, filter_waiting, aborted,
                    steps, call_status, verified_yes, information_read,
                    extractors, verification >>

WalkFunctionChoice ==
    /\ UNCHANGED << pool_vars, media_vars, db_vars, user_input >>
    /\ walker = "walking"
    /\ current_item.type = "function_choice"
    /\ information_lock = "free"
    /\ plugin_call' = PluginCall
    /\ \E choice \in DOMAIN current_item.options :
        Advance(current_item.options[choice], collected_responses)
    /\ conversation_template' = TemplateAfter(conversation_config')
    /\ UNCHANGED << extracted_information, information_lock, filter_waiting, aborted,
                    steps, call_status, verified_yes, information_read,
                    extractors, verification >>

\* ----------------------------------------------- engine: the filter threads

\* __filter_information: the filtered text, or None for the sentinel
FilterInformation(output) == IF output # "##FAILED##" THEN output ELSE "None"

FilterOutputs == {"Max", "##FAILED##"}

\* __append_filtered_info: self.__information_lock.acquire()
FilterAcquire(t) ==
    /\ UNCHANGED << pool_vars, media_vars, db_vars, user_input >>
    /\ filter_waiting[t] > 0
    /\ information_lock = "free"
    /\ information_lock' = t
    /\ filter_waiting' = [filter_waiting EXCEPT ![t] = @ - 1]
    /\ UNCHANGED << conversation_config, conversation_items, current_item, status,
                    extracted_information, walker, aborted, collected_responses,
                    returned, steps, call_status, verified_yes, plugin_call,
                    information_read, conversation_template, extractors,
                    verification >>

\* __append_filtered_info: the write and self.__information_lock.release()
FilterStore(t) ==
    /\ UNCHANGED << pool_vars, media_vars, db_vars, user_input >>
    /\ information_lock = t
    /\ \E output \in FilterOutputs :
        extracted_information' =
            [extracted_information EXCEPT ![t] = FilterInformation(output)]
    /\ information_lock' = "free"
    /\ UNCHANGED << conversation_config, conversation_items, current_item, status,
                    filter_waiting, walker, aborted, collected_responses,
                    returned, steps, call_status, verified_yes, plugin_call,
                    information_read, conversation_template, extractors,
                    verification >>

\* the lock as a thread leaves it that ended between acquire() and release()
Abandoned == "abandoned"

\* __append_filtered_info: the LLM provider fails in __filter_information; the
\* exception ends the thread, which has acquired the lock and has no
\* try / finally around the call
FilterFails(t) ==
    /\ UNCHANGED << pool_vars, media_vars, db_vars, user_input >>
    /\ information_lock = t
    /\ information_lock' = Abandoned
    /\ UNCHANGED << conversation_config, conversation_items, current_item, status,
                    extracted_information, filter_waiting, walker, aborted,
                    collected_responses, returned, steps, call_status, verified_yes,
                    plugin_call, information_read, conversation_template, extractors,
                    verification >>

\* get_information(), called by the thread that drives the steps
GetInformation ==
    /\ UNCHANGED << pool_vars, media_vars, db_vars, user_input >>
    /\ walker = "idle"
    /\ information_lock = "free"
    /\ information_read' = [called |-> TRUE, status |-> status,
                            keys |-> InformationKeys, verified |-> verified_yes]
    /\ UNCHANGED << conversation_config, conversation_items, current_item, status,
                    extracted_information, information_lock, filter_waiting, walker,
                    aborted, collected_responses, returned, steps, call_status,
                    verified_yes, plugin_call, conversation_template, extractors,
                    verification >>

\* LLMExtractor(conversation_config, softphone=sf) for the next call, on the
\* config object an engine was built from before; the engine of the call
\* before, with its filter threads, is dropped
NewExtractor ==
    /\ UNCHANGED << pool_vars, media_vars, db_vars >>
    /\ walker \in {"idle", "unconstructed"}
    /\ extractors < MaxExtractors
    /\ extractors' = extractors + 1
    /\ conversation_config' = Extractor(conversation_template).conversation_config
    /\ conversation_items' = Extractor(conversation_template).conversation_items
    /\ current_item' = Extractor(conversation_template).current_item
    /\ walker' = Extractor(conversation_template).walker
    /\ status' = "IN_PROGRESS"
    /\ extracted_information' = [t \in Titles |-> "ABSENT"]
    /\ information_lock' = "free"
    /\ filter_waiting' = [t \in Titles |-> 0]
    /\ aborted' = FALSE
    /\ collected_responses' = <<>>
    /\ UNCHANGED returned
    /\ steps' = 0
    /\ call_status' = "IN_PROGRESS"
    /\ verified_yes' = {}
    /\ plugin_call' = [called |-> FALSE, keys |-> {}, verified |-> {}]
    /\ information_read' = [called |-> FALSE, status |-> "IN_PROGRESS",
                            keys |-> {}, verified |-> {}]
    /\ verification' = ""
    /\ user_input' = ""
    /\ conversation_template' = TemplateAfter(conversation_config')

EngineNext ==
    \/ RunExtractionStep
    \/ WalkRead
    \/ WalkPrompt
    \/ WalkPath
    \/ WalkInformation
    \/ WalkChoice
    \/ WalkFunction
    \/ WalkFunctionChoice
    \/ \E t \in Titles : FilterAcquire(t)
    \/ \E t \in Titles : FilterStore(t)
    \/ \E t \in Titles : FilterFails(t)
    \/ GetInformation

\* --------------------------------------------------- telephony: the session

LiveStates == {"CALLING", "EARLY", "CONFIRMED"}

NoOp == [op |-> "none", statusCode |-> "default"]

\* the leg a new SoftphoneCall object gets: the lowest one not yet used
UnusedLegs == { l \in Legs : call_state[l] = "NULL" }
NewLeg == CHOOSE l \in UnusedLegs : \A m \in UnusedLegs : l <= m

\* the telephony fields a handler rewrites, as one value
Telephony ==
    [active_call |-> active_call, paired_call |-> paired_call, call_state |-> call_state,
     artifacts |-> artifacts]

SetTelephony(t) ==
    /\ active_call' = t.active_call
    /\ paired_call' = t.paired_call
    /\ call_state' = t.call_state
    /\ artifacts' = t.artifacts

\* SoftphoneCall.hangup(CallOpParam(True)) on leg l: a live leg is ended and the
\* library will report DISCONNECTED for it through onCallState
CallHangup(cs, l) == IF cs[l] \in LiveStates THEN [cs EXCEPT ![l] = "HUNGUP"] ELSE cs

\* Softphone.__remove_artifacts: the scratch files of the session are deleted
RemoveArtifacts(s, t) == [t EXCEPT !.artifacts[s] = FALSE]

\* Softphone.hangup(paired_only)
SoftphoneHangup(s, paired_only, t) ==
    LET t1 == IF t.paired_call[s] # NoCall
              THEN [t EXCEPT !.call_state = CallHangup(@, t.paired_call[s]),
                             !.paired_call[s] = NoCall]
              ELSE t
        t2 == IF t1.active_call[s] # NoCall
              THEN [t1 EXCEPT !.call_state = CallHangup(@, t1.active_call[s]),
                              !.active_call[s] = NoCall]
              ELSE t1
    IN  IF paired_only THEN t1 ELSE RemoveArtifacts(s, t2)

\* the thread that drives session s is in none of the blocking operations
\* forward_call, say, listen
CallerIdle(s) ==
    forwarding[s] = NoCall /\ say[s].pc = "idle" /\ listen[s].pc = "idle"

\* Softphone.is_forwarded()
IsForwarded(s) == paired_call[s] # NoCall

\* Softphone.has_picked_up_call(): an active leg with audio media
HasPickedUpCall(s) ==
    active_call[s] # NoCall /\ call_state[active_call[s]] = "CONFIRMED"

\* mutant: the callback of a paired leg hangs up the whole session
PairedOnly_Never(l) == FALSE

\* onCallState: hangup(paired_only=self.__is_paired)
PairedOnly(l) == call_is_paired[l]

\* SoftphoneCall.onCallState for leg l entering DISCONNECTED: the remote side
\* ended a live leg, or the library reports a leg that was hung up locally
OnCallState(l) ==
    /\ UNCHANGED << engine_vars, media_vars, db_vars, forward_vars >>
    /\ call_state[l] \in LiveStates \cup {"HUNGUP"}
    /\ LET t == [Telephony EXCEPT !.call_state[l] = "DISCONNECTED"]
       IN  SetTelephony(IF call_softphone[l] = NoCall THEN t
                        ELSE SoftphoneHangup(call_softphone[l], PairedOnly(l), t))
    /\ UNCHANGED << call_softphone, call_is_paired, call_op, is_listening, worker,
                    live_workers >>

\* the library reports the progress of an outbound leg: ringing, then picked up
CallProgress(l) ==
    /\ UNCHANGED << engine_vars, media_vars, db_vars, forward_vars, artifacts >>
    /\ call_state[l] \in {"CALLING", "EARLY"}
    /\ call_state' = [call_state EXCEPT ![l] = IF @ = "CALLING" THEN "EARLY" ELSE "CONFIRMED"]
    /\ UNCHANGED << active_call, paired_call, call_softphone, call_is_paired, call_op,
                    is_listening, worker, live_workers >>

\* Softphone.call(phone_number): with a call already in progress the code prints
\* "Can't call" and goes on; the new leg becomes the active call
Call(s) ==
    /\ UNCHANGED << engine_vars, media_vars, db_vars, forward_vars, artifacts >>
    /\ CallerIdle(s)
    /\ UnusedLegs # {}
    /\ active_call' = [active_call EXCEPT ![s] = NewLeg]
    /\ call_state' = [call_state EXCEPT ![NewLeg] = "CALLING"]
    /\ call_softphone' = [call_softphone EXCEPT ![NewLeg] = s]
    /\ call_is_paired' = [call_is_paired EXCEPT ![NewLeg] = FALSE]
    /\ call_op' = [call_op EXCEPT ![NewLeg] = [op |-> "makeCall", statusCode |-> "default"]]
    /\ UNCHANGED << paired_call, is_listening, worker, live_workers >>

\* AudioMediaPlayer slots: no player, a player that does not transmit, or a
\* player that transmits toward the audio media of leg l
NoPlayer == [state |-> "none", leg |-> NoCall]
StoppedPlayer == [state |-> "stopped", leg |-> NoCall]
TransmittingPlayer(l) == [state |-> "transmitting", leg |-> l]

\* `if player: player.stopTransmit(call_media)`, call_media being the media of leg l
StopTransmit(player, l) ==
    IF player.state = "transmitting" /\ player.leg = l THEN StoppedPlayer ELSE player

\* Softphone.forward_call(phone_number, timeout), up to the wait for the pickup:
\* refused without an active call or in a forwarding session, else the paired
\* leg is created and called
ForwardCall(s) ==
    /\ UNCHANGED << engine_vars, media_vars, db_vars >>
    /\ CallerIdle(s)
    /\ IF active_call[s] = NoCall \/ paired_call[s] # NoCall
       THEN /\ forward_result' = [forward_result EXCEPT ![s] = "false"]
            /\ UNCHANGED << paired_call, call_state, call_softphone, call_is_paired,
                            call_op, forwarding >>
       ELSE /\ UnusedLegs # {}
            /\ paired_call' = [paired_call EXCEPT ![s] = NewLeg]
            /\ call_state' = [call_state EXCEPT ![NewLeg] = "CALLING"]
            /\ call_softphone' = [call_softphone EXCEPT ![NewLeg] = s]
            /\ call_is_paired' = [call_is_paired EXCEPT ![NewLeg] = TRUE]
            /\ call_op' = [call_op EXCEPT
                              ![NewLeg] = [op |-> "makeCall", statusCode |-> "default"]]
            /\ forwarding' = [forwarding EXCEPT ![s] = NewLeg]
            /\ forward_result' = [forward_result EXCEPT ![s] = "none"]
    /\ UNCHANGED << active_call, is_listening, worker, live_workers, artifacts >>

\* mutant: a paired leg that was not picked up is left as it is
NotPickedUp_KeepPaired(s, t) == t

\* forward_call, "Call not picked up.": the paired leg, if still there, is hung
\* up and cleared
NotPickedUp(s, t) ==
    IF t.paired_call[s] # NoCall
    THEN [t EXCEPT !.call_state = CallHangup(@, t.paired_call[s]),
                   !.paired_call[s] = NoCall]
    ELSE t

\* Softphone.forward_call from the end of __wait_for_stop_calling("paired") on:
\* the leg stopped ringing or the timeout elapsed
ForwardReturn(s) ==
    /\ UNCHANGED << engine_vars, db_vars >>
    /\ forwarding[s] # NoCall
    /\ \E timed_out \in BOOLEAN :
          call_state[forwarding[s]] \notin {"CALLING", "EARLY"} \/ timed_out
    /\ forwarding' = [forwarding EXCEPT ![s] = NoCall]
    /\ LET picked_up == paired_call[s] # NoCall /\ call_state[paired_call[s]] = "CONFIRMED"
           active == active_call[s]
       IN  IF ~ picked_up
           THEN /\ SetTelephony(NotPickedUp(s, Telephony))
                /\ forward_result' = [forward_result EXCEPT ![s] = "false"]
                /\ UNCHANGED << media_player_1, media_player_2 >>
           ELSE IF active = NoCall
           THEN \* self.active_call.getInfo() on None
                /\ forward_result' = [forward_result EXCEPT ![s] = "raised"]
                /\ UNCHANGED << active_call, paired_call, call_state, artifacts,
                                media_player_1, media_player_2 >>
           ELSE IF call_state[active] # "CONFIRMED"
           THEN \* "No audio media available."
                /\ paired_call' = [paired_call EXCEPT ![s] = NoCall]
                /\ forward_result' = [forward_result EXCEPT ![s] = "false"]
                /\ UNCHANGED << active_call, call_state, artifacts,
                                media_player_1, media_player_2 >>
           ELSE /\ media_player_1' = [media_player_1 EXCEPT ![s] = StopTransmit(@, active)]
                /\ media_player_2' = [media_player_2 EXCEPT ![s] = StopTransmit(@, active)]
                /\ forward_result' = [forward_result EXCEPT ![s] = "true"]
                /\ UNCHANGED << active_call, paired_call, call_state, artifacts >>
    /\ UNCHANGED << call_softphone, call_is_paired, call_op, is_listening, worker,
                    live_workers, say, listen, cache, player_started >>

\* Softphone.hangup() called by the program that owns the session
Hangup(s) ==
    /\ UNCHANGED << engine_vars, media_vars, db_vars, forward_vars >>
    /\ CallerIdle(s)
    /\ active_call[s] # NoCall \/ paired_call[s] # NoCall
    /\ SetTelephony(SoftphoneHangup(s, FALSE, Telephony))
    /\ UNCHANGED << call_softphone, call_is_paired, call_op, is_listening, worker,
                    live_workers >>

\* ------------------------------------------------------ telephony: the pool

\* GroupAccount.onIncomingCall: the for loop over group.softphones from
\* position i on; the first phone without an active call, or NoCall
RECURSIVE FreePhone(_, _)
FreePhone(i, ac) ==
    IF i > NumDevices THEN NoCall
    ELSE IF ac[i] # NoCall THEN FreePhone(i + 1, ac)
    ELSE i

\* mutant: the phones are tried from the end of the list
FirstFreePhone_Last(ac) ==
    IF \E s \in Devices : ac[s] = NoCall
    THEN CHOOSE s \in Devices : ac[s] = NoCall /\ \A r \in Devices : ac[r] = NoCall => r <= s
    ELSE NoCall

\* mutant: the busy check is missing, the first phone takes every call
FirstFreePhone_Any(ac) == 1

\* GroupAccount.onIncomingCall: the phone that answers, if any
FirstFreePhone(ac) == FreePhone(1, ac)

\* GroupAccount.onIncomingCall
OnIncomingCall ==
    /\ UNCHANGED << engine_vars, media_vars, db_vars, forward_vars, artifacts >>
    /\ UnusedLegs # {}
    /\ LET phone == FirstFreePhone(active_call)
       IN  IF phone # NoCall
           THEN /\ call_softphone' = [call_softphone EXCEPT ![NewLeg] = phone]
                /\ call_op' = [call_op EXCEPT
                                  ![NewLeg] = [op |-> "answer", statusCode |-> "PJSIP_SC_OK"]]
                /\ call_state' = [call_state EXCEPT ![NewLeg] = "CONFIRMED"]
                /\ active_call' = [active_call EXCEPT ![phone] = NewLeg]
           ELSE /\ call_softphone' = [call_softphone EXCEPT ![NewLeg] = NoCall]
                /\ call_op' = [call_op EXCEPT
                                  ![NewLeg] = [op |-> "hangup", statusCode |-> "default"]]
                /\ call_state' = [call_state EXCEPT ![NewLeg] = "DISCONNECTED"]
                /\ active_call' = active_call
    /\ UNCHANGED << paired_call, call_is_paired, is_listening, worker, live_workers >>

\* __softphone_listen, the poll loop: go on when a call was picked up, leave
\* without a replacement when the group no longer listens, else sleep
WorkerPoll(s) ==
    /\ UNCHANGED << engine_vars, media_vars, db_vars, forward_vars, artifacts >>
    /\ worker[s] = "poll"
    /\ IF HasPickedUpCall(s)
       THEN /\ worker' = [worker EXCEPT ![s] = "conversation"]
            /\ UNCHANGED live_workers
       ELSE /\ ~ is_listening
            /\ worker' = [worker EXCEPT ![s] = "exited"]
            /\ live_workers' = [live_workers EXCEPT ![s] = @ - 1]
    /\ UNCHANGED << active_call, paired_call, call_state, call_softphone,
                    call_is_paired, call_op, is_listening >>

\* __softphone_listen, in the conversation: a Function item forwards the call
ConversationForward(s) ==
    /\ worker[s] = "conversation"
    /\ ForwardCall(s)

\* __softphone_listen, in the conversation: listen() returned "" (the call is
\* gone or forwarded), the worker hangs up and goes on with the loop
ConversationInterrupted(s) ==
    /\ UNCHANGED << engine_vars, media_vars, db_vars, forward_vars >>
    /\ worker[s] = "conversation"
    /\ CallerIdle(s)
    /\ active_call[s] = NoCall \/ paired_call[s] # NoCall
    /\ SetTelephony(SoftphoneHangup(s, FALSE, Telephony))
    /\ UNCHANGED << call_softphone, call_is_paired, call_op, is_listening, worker,
                    live_workers >>

\* __softphone_listen: the conversation loop ends (the engine left IN_PROGRESS
\* or the call is no longer picked up)
ConversationEnds(s) ==
    /\ UNCHANGED << engine_vars, media_vars, db_vars, forward_vars, artifacts >>
    /\ worker[s] = "conversation"
    /\ CallerIdle(s)
    /\ worker' = [worker EXCEPT ![s] = "wait_forwarded"]
    /\ UNCHANGED << active_call, paired_call, call_state, call_softphone,
                    call_is_paired, call_op, is_listening, live_workers >>

\* the thread of a worker that ends is replaced by a newly started one
Respawn(s, w, live) == [worker |-> [w EXCEPT ![s] = "poll"], live_workers |-> live]

\* mutant: the except clause returns, no thread is started after it
AfterException_NoRestart(s, t, w, live) ==
    [telephony |-> SoftphoneHangup(s, FALSE, t),
     threads |-> [worker |-> [w EXCEPT ![s] = "exited"],
                  live_workers |-> [live EXCEPT ![s] = @ - 1]]]

\* __softphone_listen: what the except clause leaves behind: the session hung
\* up, and the restart of the thread after it
AfterException(s, t, w, live) ==
    [telephony |-> SoftphoneHangup(s, FALSE, t), threads |-> Respawn(s, w, live)]

\* __softphone_listen: an exception is raised while driving the call
ConversationRaises(s) ==
    /\ UNCHANGED << engine_vars, media_vars, db_vars, forward_vars >>
    /\ worker[s] = "conversation"
    /\ CallerIdle(s)
    /\ LET after == AfterException(s, Telephony, worker, live_workers)
       IN  /\ SetTelephony(after.telephony)
           /\ worker' = after.threads.worker
           /\ live_workers' = after.threads.live_workers
    /\ UNCHANGED << call_softphone, call_is_paired, call_op, is_listening >>

\* __softphone_listen: after the loop, once the call is not forwarded: hang up,
\* then restart the thread
WorkerFinish(s) ==
    /\ UNCHANGED << engine_vars, media_vars, db_vars, forward_vars >>
    /\ worker[s] = "wait_forwarded"
    /\ ~ IsForwarded(s)
    /\ SetTelephony(SoftphoneHangup(s, FALSE, Telephony))
    /\ LET threads == Respawn(s, worker, live_workers)
       IN  /\ worker' = threads.worker
           /\ live_workers' = threads.live_workers
    /\ UNCHANGED << call_softphone, call_is_paired, call_op, is_listening >>

\* call_e.stop_listening
StopListening ==
    /\ UNCHANGED << engine_vars, media_vars, db_vars, forward_vars, artifacts >>
    /\ is_listening
    /\ is_listening' = FALSE
    /\ UNCHANGED << active_call, paired_call, call_state, call_softphone,
                    call_is_paired, call_op, worker, live_workers >>

\* ----------------------------------------------------- telephony: the media

\* chunks of one TTS response stream (chunks of at least 512 bytes)
MaxChunks == 2
\* unavailable_media_timeout of __record_incoming_audio, in retries
MaxMediaWait == 2

Messages == {"hello", "bye"}

\* Softphone.__get_message_hash: SHA-256 of the message, distinct messages
\* having distinct digests
MessageHash(message) == << "sha256", message >>

\* audio: the silence the buffer files are set up with, a chunk of a TTS stream
Silence == [message |-> "", chunk |-> 0]
Chunk(message, i) == [message |-> message, chunk |-> i]

SayIdle ==
    [pc |-> "idle", message |-> "", cache_audio |-> FALSE, leg |-> NoCall,
     buffer_switch |-> TRUE, chunks_left |-> 0, buffer_0 |-> Silence,
     buffer_1 |-> Silence, combined |-> <<>>, requested_tts |-> FALSE,
     played |-> <<>>, players |-> 0, result |-> "none", printed |-> ""]

\* say has returned (or raised): its locals are gone
SayDone(result) == [SayIdle EXCEPT !.result = result]

\* say returns at once and prints why
SayRefused(why) == [SayDone("returned") EXCEPT !.printed = why]

ListenIdle ==
    [pc |-> "idle", phase |-> "first", waited |-> 0, retries |-> 0, result |-> "none"]

NotStarted == [slot |-> 0, prior |-> "none", transmitting |-> 0]

\* the players of session s that transmit toward its active leg
Transmitting(s) ==
    { k \in {1, 2} :
        LET player == IF k = 1 THEN media_player_1[s] ELSE media_player_2[s]
        IN  /\ active_call[s] # NoCall
            /\ player = TransmittingPlayer(active_call[s]) }

\* a new AudioMediaPlayer is stored in slot k and transmits toward leg l, after
\* stopTransmit on the slots named by stop; the player object that slot k held
\* is released. prior tells what became of the players that transmitted before.
StartPlayer(k, p1, p2, l, stop) ==
    LET q1 == IF 1 \in stop THEN StopTransmit(p1, l) ELSE p1
        q2 == IF 2 \in stop THEN StopTransmit(p2, l) ELSE p2
        before == { i \in {1, 2} : (IF i = 1 THEN p1 ELSE p2) = TransmittingPlayer(l) }
        unstopped == { i \in {1, 2} : (IF i = 1 THEN q1 ELSE q2) = TransmittingPlayer(l) }
        n1 == IF k = 1 THEN TransmittingPlayer(l) ELSE q1
        n2 == IF k = 2 THEN TransmittingPlayer(l) ELSE q2
    IN  [media_player_1 |-> n1, media_player_2 |-> n2,
         started |-> [slot |-> k,
                      prior |-> IF before = {} THEN "none"
                                ELSE IF unstopped = {} THEN "stopped"
                                ELSE IF unstopped \subseteq {k} THEN "released"
                                ELSE "left",
                      transmitting |-> Cardinality({ i \in {1, 2} :
                          (IF i = 1 THEN n1 ELSE n2) = TransmittingPlayer(l) })]]

SetPlayers(s, st) ==
    /\ media_player_1' = [media_player_1 EXCEPT ![s] = st.media_player_1]
    /\ media_player_2' = [media_player_2 EXCEPT ![s] = st.media_player_2]
    /\ player_started' = [player_started EXCEPT ![s] = st.started]

\* the call has an audio media with status PJSUA_CALL_MEDIA_ACTIVE
HasActiveMedia(l) == l # NoCall /\ call_state[l] = "CONFIRMED"

\* mutant: say does not look at the paired call
InForwardingSession_Ignored(s) == FALSE

\* `if self.__paired_call:` of say and play_audio
InForwardingSession(s) == paired_call[s] # NoCall

\* the slots say stops before it plays buffer 0 through player 1, and before it
\* plays buffer 1 through player 2
StoppedForBuffer0 == {2}
\* mutant: player 1 is left transmitting when player 2 starts
StoppedForBuffer1_None == {}
StoppedForBuffer1 == {1}

\* mutant: the combined audio is stored under the hash of another message
CacheKey_Other(message) ==
    MessageHash(CHOOSE m \in Messages : m # message)

\* cached_audio_path: cache/{message_hash}.wav
CacheKey(message) == MessageHash(message)

\* Softphone.say(message, cache_audio) up to its first sleep: the guards, the
\* cache lookup and the cached playback, or the buffer setup and the TTS request
Say(s, message, cache_audio) ==
    /\ UNCHANGED << engine_vars, db_vars >>
    /\ CallerIdle(s)
    /\ LET l == active_call[s]
           call == [SayIdle EXCEPT !.message = message, !.cache_audio = cache_audio]
       IN  IF l = NoCall \/ InForwardingSession(s) \/ ~ HasActiveMedia(l)
           THEN /\ say' = [say EXCEPT ![s] =
                    IF l = NoCall THEN SayRefused("Can't say: No call in progress.")
                    ELSE IF InForwardingSession(s)
                    THEN SayRefused("Can't say: Call is in forwarding session.")
                    ELSE SayRefused("No available audio media")]
                /\ UNCHANGED << media_player_1, media_player_2, player_started,
                                artifacts >>
           ELSE IF CacheKey(message) \in DOMAIN cache
           THEN /\ SetPlayers(s, StartPlayer(1, media_player_1[s], media_player_2[s],
                                             l, {1, 2}))
                /\ say' = [say EXCEPT ![s] =
                              [call EXCEPT !.pc = "cached_playing", !.leg = l,
                                           !.played = cache[CacheKey(message)],
                                           !.players = 1]]
                /\ UNCHANGED artifacts
           ELSE /\ artifacts' = [artifacts EXCEPT ![s] = TRUE]
                /\ \E chunks \in -1..MaxChunks :
                      say' = [say EXCEPT ![s] =
                          IF chunks = -1
                          THEN \* the request raised, caught by say
                               SayDone("returned")
                          ELSE [call EXCEPT !.pc = "streaming", !.leg = l,
                                            !.requested_tts = TRUE,
                                            !.chunks_left = chunks]]
                /\ UNCHANGED << media_player_1, media_player_2, player_started >>
    /\ UNCHANGED << active_call, paired_call, call_state, call_softphone,
                    call_is_paired, call_op, is_listening, worker, live_workers,
                    forward_vars, listen, cache >>

\* say, cached playback, after the sleep: stopTransmit on the call media, which
\* the library may refuse once the call is gone; nothing catches the error
SayCachedEnd(s) ==
    /\ UNCHANGED << engine_vars, db_vars, pool_vars >>
    /\ say[s].pc = "cached_playing"
    /\ \E raised \in BOOLEAN :
        /\ raised => ~ HasActiveMedia(say[s].leg)
        /\ IF raised
           THEN /\ say' = [say EXCEPT ![s] = SayDone("raised")]
                /\ UNCHANGED media_player_1
           ELSE /\ say' = [say EXCEPT ![s] = SayDone("returned")]
                /\ media_player_1' =
                       [media_player_1 EXCEPT ![s] = StopTransmit(@, say[s].leg)]
    /\ UNCHANGED << media_player_2, listen, cache, player_started >>

\* say, streaming: one chunk of the response: the buffer written last is played
\* through one player while the chunk goes to the other buffer; an error (the
\* call is gone, the stream breaks) is caught and ends say
SayChunk(s) ==
    /\ UNCHANGED << engine_vars, db_vars, pool_vars >>
    /\ say[s].pc = "streaming"
    /\ say[s].chunks_left > 0
    /\ LET c == say[s]
           l == c.leg
           chunk == Chunk(c.message, Len(c.played) + 1)
       IN  \E raised \in BOOLEAN :
            /\ ~ raised => HasActiveMedia(l)
            /\ IF raised
               THEN /\ say' = [say EXCEPT ![s] = SayDone("returned")]
                    /\ UNCHANGED << media_player_1, media_player_2, player_started >>
               ELSE IF c.buffer_switch
               THEN /\ SetPlayers(s, StartPlayer(1, media_player_1[s], media_player_2[s],
                                                 l, StoppedForBuffer0))
                    /\ say' = [say EXCEPT ![s] =
                          [c EXCEPT !.buffer_switch = FALSE,
                                    !.played = Append(@, c.buffer_0),
                                    !.combined = Append(@, c.buffer_0),
                                    !.buffer_1 = chunk,
                                    !.players = @ + 1,
                                    !.chunks_left = @ - 1]]
               ELSE /\ SetPlayers(s, StartPlayer(2, media_player_1[s], media_player_2[s],
                                                 l, StoppedForBuffer1))
                    /\ say' = [say EXCEPT ![s] =
                          [c EXCEPT !.buffer_switch = TRUE,
                                    !.played = Append(@, c.buffer_1),
                                    !.combined = Append(@, c.buffer_1),
                                    !.buffer_0 = chunk,
                                    !.players = @ + 1,
                                    !.chunks_left = @ - 1]]
    /\ UNCHANGED << listen, cache >>

\* say, streaming: the stream is exhausted; with cache_audio the combined audio
\* is exported to the cache file
SayStreamEnd(s) ==
    /\ UNCHANGED << engine_vars, db_vars, pool_vars >>
    /\ say[s].pc = "streaming"
    /\ say[s].chunks_left = 0
    /\ cache' = IF say[s].cache_audio
                THEN [h \in DOMAIN cache \cup {CacheKey(say[s].message)} |->
                        IF h = CacheKey(say[s].message) THEN say[s].combined ELSE cache[h]]
                ELSE cache
    /\ say' = [say EXCEPT ![s] = SayDone("returned")]
    /\ UNCHANGED << media_player_1, media_player_2, listen, player_started >>

\* Softphone.play_audio(audio_file_path, do_loop)
PlayAudio(s) ==
    /\ UNCHANGED << engine_vars, db_vars, pool_vars >>
    /\ CallerIdle(s)
    /\ active_call[s] # NoCall
    /\ ~ InForwardingSession(s)
    /\ HasActiveMedia(active_call[s])
    /\ SetPlayers(s, StartPlayer(1, media_player_1[s], media_player_2[s],
                                 active_call[s], {1, 2}))
    /\ UNCHANGED << say, listen, cache >>

\* mutant: the loop of __record_incoming_audio has no timeout
MediaTimedOut_Never(waited) == FALSE

\* `while waited_on_media < unavailable_media_timeout` is over
MediaTimedOut(waited) == waited >= MaxMediaWait

\* __record_incoming_audio from the top of its retry loop to its next sleep, as
\* the set of listen records it can lead to: the timeout is used up (False,
\* listen returns "##INTERRUPTED##"); self.active_call.getInfo() on None
\* raises; an active audio media is recorded; without one the loop sleeps
RecordRetry(s, rec) ==
    IF MediaTimedOut(rec.waited)
    THEN {[rec EXCEPT !.pc = "idle", !.result = "##INTERRUPTED##"]}
    ELSE IF active_call[s] = NoCall
    THEN {[rec EXCEPT !.pc = "idle", !.result = "raised"]}
    ELSE (IF HasActiveMedia(active_call[s]) THEN {[rec EXCEPT !.pc = "recording"]} ELSE {})
         \cup {[rec EXCEPT !.pc = "media_wait", !.waited = @ + 1]}

\* a call of __record_incoming_audio: waited_on_media = 0, the first turn of
\* the loop
RecordIncomingAudio(s, rec) == RecordRetry(s, [rec EXCEPT !.waited = 0, !.retries = 0])

\* the loop of __record_incoming_audio comes round after a wait: a retry,
\* unless the timeout is used up
RecordAgain(s, rec) ==
    RecordRetry(s, IF MediaTimedOut(rec.waited) THEN rec
                   ELSE [rec EXCEPT !.retries = @ + 1])

\* the recorder writes artifacts/{id}_incoming.wav
Recorded(s, rec) == IF rec.pc = "recording" THEN [artifacts EXCEPT ![s] = TRUE] ELSE artifacts

\* Softphone.listen() up to the first sleep of its first recording
Listen(s) ==
    /\ UNCHANGED << engine_vars, db_vars >>
    /\ CallerIdle(s)
    /\ \E rec \in RecordIncomingAudio(s, ListenIdle) :
        /\ listen' = [listen EXCEPT ![s] = rec]
        /\ artifacts' = Recorded(s, rec)
    /\ UNCHANGED << active_call, paired_call, call_state, call_softphone,
                    call_is_paired, call_op, is_listening, worker, live_workers,
                    forward_vars, media_player_1, media_player_2, say, cache,
                    player_started >>

\* `if not self.active_call or self.__paired_call: return ""` of listen's loops
ListenCheck(s) == active_call[s] = NoCall \/ paired_call[s] # NoCall

\* listen, after the sleep of a recording: the recording failed (the call is
\* gone: "##INTERRUPTED##"; the media is on hold: wait and retry) or succeeded,
\* and then the loops of listen go on with the level of the recorded segment
ListenRecorded(s) ==
    /\ UNCHANGED << engine_vars, db_vars >>
    /\ listen[s].pc = "recording"
    /\ LET rec == listen[s]
           Again(phase) ==
               IF ListenCheck(s)
               THEN {[rec EXCEPT !.pc = "idle", !.result = ""]}
               ELSE RecordIncomingAudio(s, [rec EXCEPT !.phase = phase])
           next ==
               IF active_call[s] = NoCall
               THEN {[rec EXCEPT !.pc = "idle", !.result = "##INTERRUPTED##"]}
               ELSE \* the media is no longer active: a second of wait in the
                    \* for loop and, the `continue` being that of the for loop,
                    \* another one after it
                    {[rec EXCEPT !.pc = "media_wait", !.waited = @ + 2]}
                    \cup \* recorded: the segment is silent
                    (IF rec.phase = "speaking"
                     THEN {[rec EXCEPT !.pc = "idle", !.result = Transcription]}
                     ELSE Again("silence"))
                    \cup \* recorded: the segment is above the threshold
                    Again("speaking")
       IN  \E r \in next :
            /\ listen' = [listen EXCEPT ![s] = r]
            /\ artifacts' = Recorded(s, r)
    /\ UNCHANGED << active_call, paired_call, call_state, call_softphone,
                    call_is_paired, call_op, is_listening, worker, live_workers,
                    forward_vars, media_player_1, media_player_2, say, cache,
                    player_started >>

\* __record_incoming_audio, after the sleep of the retry loop
ListenMediaWait(s) ==
    /\ UNCHANGED << engine_vars, db_vars >>
    /\ listen[s].pc = "media_wait"
    /\ \E rec \in RecordAgain(s, listen[s]) :
        /\ listen' = [listen EXCEPT ![s] = rec]
        /\ artifacts' = Recorded(s, rec)
    /\ UNCHANGED << active_call, paired_call, call_state, call_softphone,
                    call_is_paired, call_op, is_listening, worker, live_workers,
                    forward_vars, media_player_1, media_player_2, say, cache,
                    player_started >>

\* ------------------------------------------------------------- the contacts

\* rows of the contacts table; their ids are 1..NumContacts
NumContacts == 2
\* length of the contact_ids list given to call_contacts
MaxIds == 2
\* largest finite maximum_attempts given to call_contacts
MaxMaximumAttempts == 1
\* calls made to one contact over a run of the model
MaxNumAttempts == 2

Contacts == 1..NumContacts
\* contact ids a caller may pass: those of the contacts and two that are none
ContactIds == 0..(NumContacts + 1)
\* float("inf"), for maximum_attempts = None
Infinity == MaxNumAttempts + 1

\* titles a conversation config may give its information items
FieldTitles == {"name", "Zip Code"}

\* str.lower()
Lower(title) == IF title = "Zip Code" THEN "zip code" ELSE title
\* str.replace(" ", "_")
ReplaceSpaces(title) == IF title = "zip code" THEN "zip_code" ELSE title

\* setup_conversation: the column of the results table made for a title
TableColumn(title) == ReplaceSpaces(Lower(title))
\* __perform_outgoing_call: the column the INSERT names for a key of the
\* information mapping
InsertColumn(key) == Lower(key)

NoRow == [present |-> FALSE, num_attempts |-> 0, status |-> ""]
StatusRow(n, st) == [present |-> TRUE, num_attempts |-> n, status |-> st]

\* the two tables of a conversation, as one value
Tables == [status_table |-> status_table, results_table |-> results_table]

\* get_contact(contact_id) is not None
IsContact(contact_id) == contact_id \in Contacts

\* INSERT OR IGNORE INTO {title}_status (contact_id, num_attempts, status)
\* VALUES (?, 0, "NOT_REACHED")
InsertOrIgnoreStatus(t, c) ==
    IF t.status_table[c].present THEN t
    ELSE [t EXCEPT !.status_table[c] = StatusRow(0, "NOT_REACHED")]

\* mutant: the number of attempts is left as it is
IncrementAttempts_Not(t, c) == t

\* UPDATE {title}_status SET num_attempts = num_attempts + 1 WHERE contact_id = ?
IncrementAttempts(t, c) ==
    IF t.status_table[c].present
    THEN [t EXCEPT !.status_table[c].num_attempts = @ + 1]
    ELSE t

\* UPDATE {title}_status SET status = ? WHERE contact_id = ?
UpdateStatus(t, c, st) ==
    IF t.status_table[c].present THEN [t EXCEPT !.status_table[c].status = st] ELSE t

\* the INSERT statement is well formed: it names a column, and only columns of
\* the results table
InsertAccepted(information) ==
    /\ information # {}
    /\ \A key \in information :
          InsertColumn(key) \in { TableColumn(title) : title \in information_titles }

\* INSERT OR REPLACE INTO {title} (contact_id, ...): contact_id is UNIQUE, the
\* rows of the contact are replaced by the new one
InsertOrReplaceResult(t, c, information) ==
    [t EXCEPT !.results_table[c] = << { InsertColumn(key) : key \in information } >>]

NoCallMade ==
    [contact_id |-> 0, placed |-> FALSE, raised |-> FALSE, error |-> "",
     picked_up |-> FALSE, final |-> "", information |-> {}, row_before |-> NoRow,
     row_dialled |-> NoRow]

\* __perform_outgoing_call(contact_id = c): the tables as the connection sees
\* them, the status table as committed, and the record of the call, for a
\* callee that picks up or not and a dialogue d. The commits are those of
\* setup_conversation and of lines 265, 309 and 335; an exception leaves the
\* function at once, and what was executed since the last commit stays in the
\* open transaction of the connection
PerformOutgoingCall(t, c, picked_up, d) ==
    LET call == [NoCallMade EXCEPT !.contact_id = c]
        Left(tables, persisted, made) ==
            [tables |-> tables, persisted |-> persisted, call |-> made]
        Raised(made, error) == [made EXCEPT !.raised = TRUE, !.error = error]
    IN  IF c = 0
        THEN \* `if contact_id:` is false, "sip:" + None raises
             Left(t, t.status_table, Raised(call, "TypeError"))
        ELSE IF ~ IsContact(c)
        THEN Left(t, t.status_table, call)
        ELSE
        LET t1 == IncrementAttempts(InsertOrIgnoreStatus(t, c), c)
            dialled == [call EXCEPT !.placed = TRUE,
                                    !.row_before = t.status_table[c],
                                    !.row_dialled = t1.status_table[c]]
            talked == [dialled EXCEPT !.picked_up = TRUE, !.final = d.final,
                                      !.information = d.information]
            aborted_call == UpdateStatus(t1, c, "ABORTED")
            completed == UpdateStatus(t1, c, "COMPLETED")
            saved == InsertOrReplaceResult(completed, c, d.information)
        IN  IF ~ picked_up THEN Left(t1, t1.status_table, dialled)
            ELSE IF d.raised
            THEN \* a step of the engine raised; nothing catches it
                 Left(t1, t1.status_table, Raised(talked, "LlmError"))
            ELSE IF d.final # "COMPLETED"
            THEN Left(aborted_call, aborted_call.status_table, talked)
            ELSE IF ~ InsertAccepted(d.information)
            THEN \* sqlite3.OperationalError; the status update stays in the
                 \* open transaction of the connection
                 Left(completed, t1.status_table, Raised(talked, "OperationalError"))
            ELSE Left(saved, saved.status_table, talked)

\* how a dialogue can end: the engine's status, and for COMPLETED the keys of
\* the mapping get_information returns; or a step of the engine raises because
\* the LLM provider fails (ProviderFails), the status being IN_PROGRESS
Dialogues ==
    { [final |-> f, information |-> {}, raised |-> FALSE] :
          f \in {"IN_PROGRESS", "ABORTED"} }
    \cup { [final |-> "COMPLETED", information |-> i, raised |-> FALSE] :
              i \in SUBSET information_titles }
    \cup { [final |-> "IN_PROGRESS", information |-> {}, raised |-> TRUE] }

SetTables(t) ==
    /\ status_table' = t.status_table
    /\ results_table' = t.results_table

\* the calls to one contact are counted up to MaxNumAttempts
AttemptsLeft(c) == IsContact(c) => status_table[c].num_attempts < MaxNumAttempts

\* call_e.call_contact(contact_id, conversation_config_path)
CallContact(c) ==
    /\ UNCHANGED << engine_vars, pool_vars, media_vars >>
    /\ contact_run.pc = "idle"
    /\ AttemptsLeft(c)
    /\ \E picked_up \in BOOLEAN, d \in Dialogues :
        LET done == PerformOutgoingCall(Tables, c, picked_up, d)
        IN  /\ SetTables(done.tables)
            /\ persisted_status' = done.persisted
            /\ last_call' = done.call
    /\ UNCHANGED << information_titles, contact_run >>

\* call_e.get_contact_status(contact_id, conversation_config_path), between
\* calls: setup_conversation commits whatever the connection has pending
GetContactStatus(c) ==
    /\ UNCHANGED << engine_vars, pool_vars, media_vars >>
    /\ contact_run.pc # "running"
    /\ persisted_status' = status_table
    /\ UNCHANGED << status_table, results_table, information_titles, contact_run,
                    last_call >>

NoRun ==
    [pc |-> "idle", given |-> <<>>, contact_ids |-> <<>>, maximum_attempts |-> 0,
     visited |-> <<>>]

\* the contact_ids a caller may pass
IdLists == UNION { [1..n -> ContactIds \ {0}] : n \in 0..MaxIds }

\* contact_ids = None: SELECT contact_id FROM contacts, sorted
AllContactIds == [i \in 1..NumContacts |-> i]

\* call_contacts(conversation_config_path, contact_ids, maximum_attempts) up
\* to its loop; contact_ids and maximum_attempts may be None
CallContacts ==
    /\ UNCHANGED << engine_vars, pool_vars, media_vars >>
    /\ contact_run.pc = "idle"
    /\ \E ids \in IdLists \cup {AllContactIds},
          maximum_attempts \in (0..MaxMaximumAttempts) \cup {Infinity} :
          contact_run' = [NoRun EXCEPT !.pc = "running", !.given = ids,
                                       !.contact_ids = ids,
                                       !.maximum_attempts = maximum_attempts]
    /\ last_call' = NoCallMade
    /\ UNCHANGED << status_table, results_table, information_titles,
                    persisted_status >>

\* call_contacts called once more, after the run before has ended, with the
\* maximum_attempts of that run
CallContactsAgain ==
    /\ UNCHANGED << engine_vars, pool_vars, media_vars >>
    /\ contact_run.pc \in {"done", "raised"}
    /\ \E ids \in IdLists \cup {AllContactIds} :
          contact_run' = [NoRun EXCEPT !.pc = "running", !.given = ids,
                                       !.contact_ids = ids,
                                       !.maximum_attempts = contact_run.maximum_attempts]
    /\ last_call' = NoCallMade
    /\ UNCHANGED << status_table, results_table, information_titles,
                    persisted_status >>

\* mutant: a contact without a status row is held to maximum_attempts as well
MayCall_NoFirstCall(row, maximum_attempts) ==
    /\ row.present => row.status = "NOT_REACHED"
    /\ row.num_attempts < maximum_attempts

\* mutant: a contact that was not reached is called however often it was tried
MayCall_AnyAttempts(row, maximum_attempts) ==
    \/ ~ row.present
    \/ row.status = "NOT_REACHED"

\* call_contacts: the contact is called: it has no status row yet, or it was
\* not reached and has attempts left
MayCall(row, maximum_attempts) ==
    \/ ~ row.present
    \/ /\ row.status = "NOT_REACHED"
       /\ row.num_attempts < maximum_attempts

\* call_contacts: one turn of the loop over contact_ids
VisitContact ==
    /\ UNCHANGED << engine_vars, pool_vars, media_vars >>
    /\ contact_run.pc = "running"
    /\ IF contact_run.contact_ids = <<>>
       THEN /\ contact_run' = [contact_run EXCEPT !.pc = "done"]
            /\ UNCHANGED << status_table, results_table, last_call,
                            persisted_status >>
       ELSE LET c == Head(contact_run.contact_ids)
                rest == [contact_run EXCEPT !.contact_ids = Tail(@)]
                row == IF IsContact(c) THEN status_table[c] ELSE NoRow
                Visit(called) == [contact_id |-> c, row |-> row, called |-> called]
            IN  IF ~ IsContact(c) \/ ~ MayCall(row, contact_run.maximum_attempts)
                THEN /\ contact_run' = [rest EXCEPT !.visited = Append(@, Visit(FALSE))]
                     /\ persisted_status' =
                            \* get_contact_status commits, for a contact
                            IF IsContact(c) THEN status_table ELSE persisted_status
                     /\ UNCHANGED << status_table, results_table, last_call >>
                ELSE /\ AttemptsLeft(c)
                     /\ \E picked_up \in BOOLEAN, d \in Dialogues :
                         LET done == PerformOutgoingCall(Tables, c, picked_up, d)
                         IN  /\ SetTables(done.tables)
                             /\ persisted_status' = done.persisted
                             /\ last_call' = done.call
                             /\ contact_run' =
                                  [rest EXCEPT
                                     !.visited = Append(@, Visit(TRUE)),
                                     !.pc = IF done.call.raised THEN "raised" ELSE @]
    /\ UNCHANGED information_titles

ContactsNext ==
    \/ \E c \in ContactIds : CallContact(c)
    \/ \E c \in Contacts : GetContactStatus(c)
    \/ CallContacts
    \/ VisitContact

\* -------------------------------------------------------------- specifications

\* no session, no leg
NoTelephony ==
    /\ active_call = [s \in Devices |-> NoCall]
    /\ paired_call = [s \in Devices |-> NoCall]
    /\ call_state = [l \in Legs |-> "NULL"]
    /\ call_softphone = [l \in Legs |-> NoCall]
    /\ call_is_paired = [l \in Legs |-> FALSE]
    /\ call_op = [l \in Legs |-> NoOp]
    /\ forwarding = [s \in Devices |-> NoCall]
    /\ forward_result = [s \in Devices |-> "none"]
    /\ artifacts = [s \in Devices |-> FALSE]

\* call_e.start_listening: the group listens, one listener thread per session
PoolInit ==
    /\ NoTelephony
    /\ is_listening = TRUE
    /\ worker = [s \in Devices |-> "poll"]
    /\ live_workers = [s \in Devices |-> 1]

\* Softphone(credentials_path): sessions outside a pool, without listener threads
PhoneInit ==
    /\ NoTelephony
    /\ is_listening = TRUE
    /\ worker = [s \in Devices |-> "none"]
    /\ live_workers = [s \in Devices |-> 0]

\* no player, no say or listen under way, an empty cache directory
MediaIdle ==
    /\ media_player_1 = [s \in Devices |-> NoPlayer]
    /\ media_player_2 = [s \in Devices |-> NoPlayer]
    /\ say = [s \in Devices |-> SayIdle]
    /\ listen = [s \in Devices |-> ListenIdle]
    /\ cache = [h \in {} |-> <<>>]
    /\ player_started = [s \in Devices |-> NotStarted]

\* the tables of a conversation with the given titles, before any call
DbConstructed(titles) ==
    /\ status_table = [c \in Contacts |-> NoRow]
    /\ results_table = [c \in Contacts |-> <<>>]
    /\ information_titles = titles
    /\ contact_run = NoRun
    /\ last_call = NoCallMade
    /\ persisted_status = [c \in Contacts |-> NoRow]

DbIdle == DbConstructed({})

PoolNext ==
    \/ OnIncomingCall
    \/ \E l \in Legs : OnCallState(l)
    \/ \E s \in Devices : WorkerPoll(s)
    \/ \E l \in Legs : CallProgress(l)
    \/ \E s \in Devices : ConversationForward(s)
    \/ \E s \in Devices : ForwardReturn(s)
    \/ \E s \in Devices : ConversationInterrupted(s)
    \/ \E s \in Devices : ConversationEnds(s)
    \/ \E s \in Devices : ConversationRaises(s)
    \/ \E s \in Devices : WorkerFinish(s)
    \/ StopListening

PhoneNext ==
    \/ \E s \in Devices : Call(s)
    \/ \E l \in Legs : CallProgress(l)
    \/ \E l \in Legs : OnCallState(l)
    \/ \E s \in Devices : ForwardCall(s)
    \/ \E s \in Devices : ForwardReturn(s)
    \/ \E s \in Devices : Hangup(s)

\* the conversation engine of one call
Init == EngineInit /\ PhoneInit /\ MediaIdle /\ DbIdle
Next == EngineNext
Spec == Init /\ [][Next]_vars

\* the engines built, one call after the other, from one conversation config
EnginesNext ==
    \/ EngineNext
    \/ NewExtractor

SpecEngines == Init /\ [][EnginesNext]_vars

\* a conversation config as read from a file that may lack a reserved path
Restrict(config, keys) == [k \in keys |-> config[k]]

ReservedPaths == {"entry", "aborted"}

ConfigInit ==
    /\ \E entry \in EntryPaths, ab \in AbortedPaths, lacking \in SUBSET ReservedPaths :
          ExtractorConstructed(Restrict(ConfigOf(entry, ab), ListIds \ lacking))
    /\ PhoneInit /\ MediaIdle /\ DbIdle

SpecConfig == ConfigInit /\ [][EngineNext]_vars

\* conversation configs whose paths and option lists lead back to paths the
\* walker has been on: sub and the option lists end in a path item that names
\* entry or sub, and entry may name itself
RecursiveConfigOf(entry, abortedPath) ==
    [ entry     |-> entry,
      aborted   |-> abortedPath,
      sub       |-> << ReadItem("again", FALSE), PathItem("entry") >>,
      opt_coffee |-> << PathItem("entry") >>,
      opt_tea   |-> << ReadItem("tea", TRUE), PathItem("sub") >>,
      opt_left  |-> << PathItem("sub") >>,
      opt_right |-> << InformationItem("t2", FALSE), PathItem("entry") >> ]

RecursiveEntryPaths ==
    { p \in SeqsUpTo(EntryItems \cup {PathItem("entry")}, MaxPathLen) :
        Len(p) > 0 /\ ValidPath(p) }

RecursiveAbortedPaths == { << ReadItem("Sorry, goodbye", FALSE) >>, << PathItem("entry") >> }

RecursiveInit ==
    /\ \E entry \in RecursiveEntryPaths, ab \in RecursiveAbortedPaths :
          ExtractorConstructed(RecursiveConfigOf(entry, ab))
    /\ PhoneInit /\ MediaIdle /\ DbIdle

SpecRecursive == RecursiveInit /\ [][EngineNext]_vars

\* the softphone pool of start_listening with its listener workers
EngineIdle ==
    EngineConstructed(<< ReadItem("Hi", FALSE) >>, << ReadItem("Sorry, goodbye", FALSE) >>)

SpecPoolInit == EngineIdle /\ PoolInit /\ MediaIdle /\ DbIdle
SpecPoolNext == PoolNext
SpecPool == SpecPoolInit /\ [][SpecPoolNext]_vars

\* the listener threads, the library's callbacks and the remote parties keep going
SpecPoolFair ==
    /\ SpecPool
    /\ \A s \in Devices : WF_vars(WorkerPoll(s))
    /\ \A s \in Devices : WF_vars(ConversationEnds(s))
    /\ \A s \in Devices : WF_vars(WorkerFinish(s))
    /\ \A s \in Devices : WF_vars(ForwardReturn(s))
    /\ \A l \in Legs : WF_vars(OnCallState(l))

\* sessions used directly, for outbound calls
SpecPhoneInit == EngineIdle /\ PhoneInit /\ MediaIdle /\ DbIdle
SpecPhoneNext == PhoneNext
SpecPhone == SpecPhoneInit /\ [][SpecPhoneNext]_vars

\* __perform_outgoing_call: `sf = Softphone(...)`, the only phone of its group
Sf == CHOOSE s \in Devices : \A r \in Devices : s <= r

\* __perform_outgoing_call: sf.call(phone_number) on a session without a call
CallNumber(s) == active_call[s] = NoCall /\ Call(s)

\* one session driven by one thread: calls, forwarding, say, play_audio
MediaNext ==
    \/ CallNumber(Sf)
    \/ \E l \in Legs : CallProgress(l)
    \/ \E l \in Legs : OnCallState(l)
    \/ ForwardCall(Sf)
    \/ ForwardReturn(Sf)
    \/ Hangup(Sf)
    \/ \E message \in Messages, cache_audio \in BOOLEAN : Say(Sf, message, cache_audio)
    \/ SayCachedEnd(Sf)
    \/ SayChunk(Sf)
    \/ SayStreamEnd(Sf)
    \/ PlayAudio(Sf)

SpecMediaInit == EngineIdle /\ PhoneInit /\ MediaIdle /\ DbIdle
SpecMedia == SpecMediaInit /\ [][MediaNext]_vars

\* one session driven by one thread that listens, while calls come and go
ListenNext ==
    \/ CallNumber(Sf)
    \/ \E l \in Legs : CallProgress(l)
    \/ \E l \in Legs : OnCallState(l)
    \/ ForwardCall(Sf)
    \/ ForwardReturn(Sf)
    \/ Hangup(Sf)
    \/ Listen(Sf)
    \/ ListenRecorded(Sf)
    \/ ListenMediaWait(Sf)

SpecListen == SpecMediaInit /\ [][ListenNext]_vars

\* the thread that drives the dialogue of session s: the caller of
\* __perform_outgoing_call, or the listener thread once a call was picked up
DrivesDialogue(s) == worker[s] \in {"none", "conversation"}

\* the dialogue loops of call_e: the extractor is set up on a picked-up call
\* and its first step is run with ""
DialogueFirstStep(s) ==
    /\ UNCHANGED << pool_vars, media_vars, db_vars >>
    /\ DrivesDialogue(s)
    /\ HasPickedUpCall(s)
    /\ steps = 0
    /\ StepCalled("")

\* the dialogue loops of call_e: the loop condition holds, sf.listen() is called
DialogueListen(s) ==
    /\ DrivesDialogue(s)
    /\ steps > 0
    /\ walker = "idle"
    /\ status = "IN_PROGRESS"
    /\ HasPickedUpCall(s)
    /\ listen[s].result = "none"
    /\ Listen(s)

\* the dialogue loops of call_e from the return of sf.listen() to the step:
\* the listener thread hangs up on "", the processing sound is played, and
\* what listen returned is given to run_extraction_step; play_audio on a call
\* without active audio media raises before the step
DialogueTurn(s) ==
    /\ UNCHANGED db_vars
    /\ DrivesDialogue(s)
    /\ listen[s].pc = "idle"
    /\ listen[s].result \notin {"none", "raised"}
    /\ LET heard == listen[s].result
           t == IF worker[s] = "conversation" /\ heard = ""
                THEN SoftphoneHangup(s, FALSE, Telephony)
                ELSE Telephony
           l == t.active_call[s]
       IN  /\ SetTelephony(t)
           /\ IF l # NoCall /\ t.paired_call[s] = NoCall
              THEN /\ t.call_state[l] = "CONFIRMED"
                   /\ SetPlayers(s, StartPlayer(1, media_player_1[s], media_player_2[s],
                                                l, {1, 2}))
              ELSE UNCHANGED << media_player_1, media_player_2, player_started >>
           /\ StepCalled(heard)
    /\ listen' = [listen EXCEPT ![s] = ListenIdle]
    /\ UNCHANGED << call_softphone, call_is_paired, call_op, is_listening, worker,
                    live_workers, forward_vars, say, cache >>

\* a dialogue that asks for one piece of information
DialogueEngine ==
    EngineConstructed(<< ReadItem("Ready?", TRUE), InformationItem("t1", FALSE) >>,
                      << ReadItem("Sorry, goodbye", FALSE) >>)

\* one dialogue on session Sf, outbound (the session is used directly) or
\* inbound (the session is in a listening pool)
DialogueInit ==
    /\ DialogueEngine
    /\ PoolInit \/ PhoneInit
    /\ MediaIdle /\ DbIdle

\* __perform_outgoing_call: sf.call(phone_number), the one call of a session
\* that is used directly
DialogueCall(s) == worker[s] = "none" /\ UnusedLegs = Legs /\ CallNumber(s)

\* a call comes in while the listener thread of session s polls
DialogueIncomingCall(s) == worker[s] = "poll" /\ OnIncomingCall

DialogueNext ==
    \/ DialogueCall(Sf)
    \/ DialogueIncomingCall(Sf)
    \/ WorkerPoll(Sf)
    \/ \E l \in Legs : CallProgress(l)
    \/ \E l \in Legs : OnCallState(l)
    \/ DialogueFirstStep(Sf)
    \/ DialogueListen(Sf)
    \/ ListenRecorded(Sf)
    \/ ListenMediaWait(Sf)
    \/ DialogueTurn(Sf)
    \/ WalkRead
    \/ WalkInformation
    \/ \E t \in Titles : FilterAcquire(t)
    \/ \E t \in Titles : FilterStore(t)
    \/ \E t \in Titles : FilterFails(t)

SpecDialogue == DialogueInit /\ [][DialogueNext]_vars

\* the contacts database driven by call_contact and call_contacts
SpecContactsInit ==
    /\ EngineIdle /\ PhoneInit /\ MediaIdle
    /\ \E titles \in SUBSET FieldTitles : DbConstructed(titles)
SpecContacts == SpecContactsInit /\ [][ContactsNext]_vars

\* runs of call_contacts, one after the other, on tables that start empty
RunsNext ==
    \/ CallContacts
    \/ CallContactsAgain
    \/ VisitContact

SpecRuns == SpecContactsInit /\ [][RunsNext]_vars

\* ---------------------------------------------------- properties: the engine

Terminal == {"COMPLETED", "ABORTED"}

\* C1: the status only moves from IN_PROGRESS to COMPLETED or to ABORTED; once
\* COMPLETED it never becomes ABORTED, once ABORTED never COMPLETED, and it
\* never returns to IN_PROGRESS.
C1_StatusMonotonic ==
    [][ /\ status = "COMPLETED" => status' = "COMPLETED"
        /\ status = "ABORTED" => status' = "ABORTED" ]_vars

\* a walker action of the running step is being taken
walker_vars ==
    << walker, collected_responses, current_item, conversation_items,
       conversation_config, status, plugin_call >>

WalkerActs == walker = "walking" /\ walker_vars' # walker_vars

\* C2: a step called when the status is already COMPLETED or ABORTED is a no-op:
\* it returns the empty list and leaves current item, queue, extracted
\* information (no filter started) and status unchanged.
C2_TerminalStepIsNoOp ==
    [][ (call_status \in Terminal /\ WalkerActs) =>
          /\ UNCHANGED << current_item, conversation_items, conversation_config,
                          status, filter_waiting >>
          /\ collected_responses' = <<>>
          /\ walker' = "idle" => returned' = [kind |-> "returned", fragments |-> <<>>]
      ]_vars

\* C3: get_information() called when the status is COMPLETED returns a mapping
\* with a key for every title whose verification returned YES.
C3_InformationCompleteWhenCompleted ==
    (information_read.called /\ information_read.status = "COMPLETED")
        => information_read.verified \subseteq information_read.keys

\* C4: the mapping passed to a Function / FunctionChoice plugin holds every
\* title that was verified YES before the walker reached that item.
C4_PluginSeesVerifiedTitles ==
    plugin_call.called => plugin_call.verified \subseteq plugin_call.keys

\* the step has returned normally
StepReturned == walker = "idle" /\ returned.kind = "returned"

\* C5 (as claimed): step never returns with status IN_PROGRESS, a non-empty
\* queue and a current item whose interactive flag is false.
C5_ReturnsOnlyAtInteractiveCurrentItem ==
    (StepReturned /\ status = "IN_PROGRESS"
       /\ Len(conversation_config[conversation_items]) > 0)
        => current_item.interactive

\* C5 (amended): a step returns with status IN_PROGRESS only from an information
\* or choice item, or right after an item whose interactive flag is true; these
\* are the only points at which the walker suspends.
C5_SuspendsOnlyAtInteractivePoints ==
    [][ (walker = "walking" /\ walker' = "idle" /\ returned'.kind = "returned"
           /\ status' = "IN_PROGRESS")
        => (current_item.type \in {"information", "choice"} \/ current_item.interactive)
      ]_vars

\* C5 witness: a step has returned, still IN_PROGRESS, right after the
\* interactive read item, and the current item is its successor
C5_Witness ==
    /\ StepReturned
    /\ status = "IN_PROGRESS"
    /\ returned.fragments # <<>>
    /\ returned.fragments[Len(returned.fragments)] = Fragment(<<"Ready?", "\n">>, "read")
    /\ ~ current_item.interactive

\* ------------------------------------------------------ properties: the pool

\* the transition is onIncomingCall handling leg l
IncomingHandled(l) == call_op[l].op = "none" /\ call_op'[l].op \in {"answer", "hangup"}

FreeSessions == { s \in Devices : active_call[s] = NoCall }
LowestFree == CHOOSE s \in FreeSessions : \A r \in FreeSessions : s <= r

\* what onIncomingCall does with leg l, the rejection carrying `code`
IncomingRouted(l, code) ==
    IF FreeSessions # {}
    THEN /\ call_op'[l] = [op |-> "answer", statusCode |-> "PJSIP_SC_OK"]
         /\ call_state'[l] = "CONFIRMED"
         /\ active_call' = [active_call EXCEPT ![LowestFree] = l]
    ELSE /\ call_op'[l] = [op |-> "hangup", statusCode |-> code]
         /\ call_state'[l] \notin LiveStates
         /\ active_call' = active_call

AnsweredInProgress == { l \in Legs : call_op[l].op = "answer" /\ call_state[l] = "CONFIRMED" }

\* C7: two incoming calls in progress are never bound to the same session, an
\* incoming call never overwrites a session's non-empty active leg, and at most
\* NumDevices incoming calls are answered at once.
C7_DistinctSessions ==
    /\ [] /\ \A l, m \in AnsweredInProgress : call_softphone[l] = call_softphone[m] => l = m
          /\ \A l \in AnsweredInProgress : active_call[call_softphone[l]] = l
          /\ Cardinality(AnsweredInProgress) <= NumDevices
    /\ [][ \A s \in Devices :
             (active_call[s] # NoCall /\ active_call'[s] # active_call[s])
                 => active_call'[s] = NoCall ]_vars

\* C7 witness: every session of the pool holds an answered call in progress
C7_Witness ==
    /\ Cardinality(AnsweredInProgress) = NumDevices
    /\ \A s \in Devices : active_call[s] \in AnsweredInProgress

InConversation == {"conversation", "wait_forwarded"}

\* C8: when a worker's conversation ends, normally or by an exception, the
\* session's legs are hung up and cleared and exactly one replacement worker of
\* that session is started (it polls for the next call).
C8_HangupAndRespawn ==
    [][ \A s \in Devices :
          (worker[s] \in InConversation /\ worker'[s] \notin InConversation) =>
            /\ active_call'[s] = NoCall
            /\ paired_call'[s] = NoCall
            /\ active_call[s] # NoCall => call_state'[active_call[s]] \notin LiveStates
            /\ paired_call[s] # NoCall => call_state'[paired_call[s]] \notin LiveStates
            /\ worker'[s] = "poll"
            /\ live_workers'[s] = 1 ]_vars

\* C8 witness: a session whose answered call was hung up by its worker, with
\* the replacement worker polling and a new call already bound to the session
C8_Witness ==
    \E s \in Devices, l \in Legs :
        /\ worker[s] = "poll"
        /\ live_workers[s] = 1
        /\ call_op[l].op = "answer" /\ call_softphone[l] = s /\ call_state[l] = "HUNGUP"
        /\ active_call[s] \notin {NoCall, l}

\* the worker of session s waits for a pickup after stop_listening
WaitingAfterStop(s) == ~ is_listening /\ worker[s] = "poll" /\ active_call[s] = NoCall

\* C9: after stop_listening every worker waiting for a pickup exits at its next
\* poll without starting a replacement (it runs no further conversation), and
\* eventually no listener worker of the pool remains.
C9_WaitingWorkersExit ==
    /\ \A s \in Devices : [](WaitingAfterStop(s) => [](worker[s] # "conversation"))
    /\ (~ is_listening) ~> (\A s \in Devices : live_workers[s] = 0)

\* the transition starts an outbound (not paired) leg on session s
OutboundLegStarted(s) ==
    \E l \in Legs :
        /\ call_op[l].op = "none"
        /\ call_op'[l].op = "makeCall"
        /\ ~ call_is_paired'[l]
        /\ call_softphone'[l] = s

\* C10: call(number) on a session that has an active leg is rejected: no new
\* outbound leg is initiated and the active leg stays the session's active leg.
C10_CallRejectedWhenActive ==
    [][ \A s \in Devices :
          (active_call[s] # NoCall /\ OutboundLegStarted(s))
              => (FALSE /\ active_call'[s] = active_call[s]) ]_vars

\* ------------------------------------------------- properties: forwarding

\* forward_call of session s returns in this step, its leg not picked up
ForwardFails(s) ==
    /\ forwarding[s] # NoCall
    /\ forwarding'[s] = NoCall
    /\ call_state[forwarding[s]] # "CONFIRMED"

\* C11: if the leg placed by forward is not picked up (timeout or rejection),
\* forward returns failure, the paired leg is hung up and cleared so that
\* is_forwarded() is false, and the active leg stays the session's active leg
\* and is not hung up.
C11_ForwardFailureKeepsPrimary ==
    [][ \A s \in Devices : ForwardFails(s) =>
          /\ forward_result'[s] = "false"
          /\ paired_call'[s] = NoCall
          /\ call_state'[forwarding[s]] \notin LiveStates
          /\ active_call'[s] = active_call[s]
          /\ active_call[s] # NoCall =>
                call_state'[active_call[s]] = call_state[active_call[s]] ]_vars

\* forward returned failure on a timeout: the paired leg was hung up while the
\* active leg is still connected
C11_Witness ==
    \E s \in Devices, l \in Legs :
        /\ forward_result[s] = "false"
        /\ call_softphone[l] = s /\ call_is_paired[l] /\ call_state[l] = "HUNGUP"
        /\ paired_call[s] = NoCall
        /\ active_call[s] # NoCall
        /\ call_state[active_call[s]] = "CONFIRMED"

\* the library reports leg l of session s as DISCONNECTED in this step
Disconnects(l, s) ==
    /\ call_state[l] # "DISCONNECTED"
    /\ call_state'[l] = "DISCONNECTED"
    /\ call_softphone[l] = s

\* C13: when the paired leg of a session enters DISCONNECTED only the paired
\* leg is torn down and cleared and the active leg is left connected; when the
\* active leg enters DISCONNECTED both legs are torn down and cleared and the
\* scratch files of the session are deleted.
C13_DisconnectTearsDown ==
    [][ \A s \in Devices, l \in Legs : Disconnects(l, s) =>
          /\ l = paired_call[s] =>
                /\ paired_call'[s] = NoCall
                /\ active_call'[s] = active_call[s]
                /\ active_call[s] # NoCall =>
                      call_state'[active_call[s]] = call_state[active_call[s]]
                /\ artifacts'[s] = artifacts[s]
          /\ l = active_call[s] =>
                /\ active_call'[s] = NoCall
                /\ paired_call'[s] = NoCall
                /\ paired_call[s] # NoCall =>
                      call_state'[paired_call[s]] \notin LiveStates
                /\ artifacts'[s] = FALSE ]_vars

\* a bridged paired leg was disconnected by its peer: the session is no longer
\* forwarded, its active leg is still connected and its scratch files are kept
C13_Witness ==
    \E s \in Devices, l \in Legs :
        /\ call_softphone[l] = s /\ call_is_paired[l] /\ call_state[l] = "DISCONNECTED"
        /\ forward_result[s] = "true"
        /\ paired_call[s] = NoCall
        /\ active_call[s] # NoCall
        /\ call_state[active_call[s]] = "CONFIRMED"
        /\ artifacts[s]

\* ------------------------------------------------------ properties: the media

\* a player of session s starts to transmit in this step
PlayerStarts(s) ==
    \/ player_started'[s] # player_started[s]
    \/ media_player_1'[s].state = "transmitting" /\ media_player_1'[s] # media_player_1[s]
    \/ media_player_2'[s].state = "transmitting" /\ media_player_2'[s] # media_player_2[s]

\* C12: while a session has a paired leg, say and play_audio return at once
\* without creating or starting a media player toward the active leg.
C12_NoPlaybackWhileForwarded ==
    [][ \A s \in Devices : IsForwarded(s) =>
          /\ ~ PlayerStarts(s)
          /\ say'[s].pc = "idle" ]_vars

\* say was called in a forwarding session and refused
C12_Witness ==
    \E s \in Devices :
        /\ IsForwarded(s)
        /\ say[s].printed = "Can't say: Call is in forwarding session."

\* C14 as stated: at most one media player transmits toward the active leg at
\* any instant, and every newly started player is preceded by stopTransmit on
\* the player that was transmitting before it.
C14_OnePlayerPriorStopped ==
    \A s \in Devices :
        /\ Cardinality(Transmitting(s)) <= 1
        /\ player_started[s].prior \in {"none", "stopped"}

\* C14: at most one media player transmits toward the active leg at any
\* instant; when a player is started, the player that was transmitting before
\* it was stopped with stopTransmit or is the player whose slot the new one
\* takes (the old object is released, which ends its transmission).
C14_OnePlayerPriorStoppedOrReleased ==
    \A s \in Devices :
        /\ Cardinality(Transmitting(s)) <= 1
        /\ player_started[s].transmitting <= 1
        /\ player_started[s].prior \in {"none", "stopped", "released"}

\* the streaming say started its player 2 after its player 1, which it stopped
C14_Witness ==
    \E s \in Devices :
        /\ say[s].pc = "streaming"
        /\ player_started[s].slot = 2
        /\ player_started[s].prior = "stopped"
        /\ Transmitting(s) = {2}

\* the stream of a say with cache_audio is exhausted in this step
StreamedToCompletion(s) ==
    /\ say[s].pc = "streaming"
    /\ say[s].chunks_left = 0
    /\ say[s].cache_audio
    /\ say'[s].pc = "idle"

\* C15: after say(text, cache=true) has streamed to completion a cache entry
\* keyed by SHA-256(text) exists (holding the audio that was played), and a
\* following say(text, cache=true) is a cache hit: it requests no new TTS
\* stream, plays exactly the stored audio through a single player and leaves
\* the cache entry unchanged.
C15_CacheHitAfterCompletion ==
    /\ [][ \A s \in Devices : StreamedToCompletion(s) =>
             /\ MessageHash(say[s].message) \in DOMAIN cache'
             /\ cache'[MessageHash(say[s].message)] = say[s].played ]_vars
    /\ [][ \A s \in Devices :
             (say[s].pc = "idle" /\ say'[s].pc # "idle"
                /\ MessageHash(say'[s].message) \in DOMAIN cache) =>
                 /\ say'[s].pc = "cached_playing"
                 /\ ~ say'[s].requested_tts
                 /\ say'[s].played = cache[MessageHash(say'[s].message)]
                 /\ say'[s].players = 1
                 /\ Transmitting(s)' = {1}
                 /\ cache' = cache ]_vars
    /\ [][ \A s \in Devices : say[s].pc = "cached_playing" => cache' = cache ]_vars

\* a cached say plays stored audio that holds a chunk of the earlier stream
C15_Witness ==
    \E s \in Devices :
        /\ say[s].pc = "cached_playing"
        /\ say[s].cache_audio
        /\ Len(say[s].played) = 2
        /\ say[s].played = cache[MessageHash(say[s].message)]

\* C16: no error inside say, in the cached playback as in the streaming path,
\* is raised to the caller of say.
C16_SayNeverRaises == \A s \in Devices : say[s].result # "raised"

\* C17: when the disconnection callback clears the active leg while listen is
\* in flight, listen returns "" or "##INTERRUPTED##" and never raises.
C17_ListenNeverRaises ==
    [][ \A s \in Devices :
          (listen[s].pc # "idle" /\ listen'[s].pc = "idle" /\ active_call[s] = NoCall) =>
              listen'[s].result \in {"", "##INTERRUPTED##"} ]_vars

\* --------------------------------------------------- properties: the contacts

\* C18: every call_contact for an existing contact creates the status row
\* (NOT_REACHED, 0) if it is absent and then increments num_attempts by exactly
\* one before the call is placed; if the call is not picked up, the attempt
\* still counts and the status value is left unchanged.
C18_AttemptCountedBeforeCall ==
    LET c == last_call.contact_id
        before == IF last_call.row_before.present THEN last_call.row_before
                  ELSE StatusRow(0, "NOT_REACHED")
    IN  /\ IsContact(c) => last_call.placed
        /\ last_call.placed =>
              /\ IsContact(c)
              /\ last_call.row_dialled = StatusRow(before.num_attempts + 1, before.status)
              /\ ~ last_call.picked_up => status_table[c] = last_call.row_dialled

\* a second call to a contact was not picked up: two attempts, still NOT_REACHED
C18_Witness ==
    /\ last_call.placed
    /\ ~ last_call.picked_up
    /\ last_call.row_before = StatusRow(1, "NOT_REACHED")
    /\ status_table[last_call.contact_id] = StatusRow(2, "NOT_REACHED")

\* C19: after a picked-up call_contact dialogue the contact's status is ABORTED
\* if the engine ended ABORTED, and COMPLETED if the engine ended COMPLETED, in
\* which case exactly one result row of the contact exists, holding the
\* extracted fields.
C19_StatusAndResultAfterDialogue ==
    LET c == last_call.contact_id
    IN  last_call.picked_up =>
          /\ last_call.final = "ABORTED" => status_table[c].status = "ABORTED"
          /\ last_call.final = "COMPLETED" =>
                /\ status_table[c].status = "COMPLETED"
                /\ ~ last_call.raised
                /\ results_table[c] =
                      << { TableColumn(key) : key \in last_call.information } >>

\* maximum_attempts of the run bars a call to a contact with this status row,
\* a contact without a row counting as (NOT_REACHED, 0)
Barred(row, maximum_attempts) ==
    \/ row.present /\ row.status # "NOT_REACHED"
    \/ row.num_attempts >= maximum_attempts

\* the ids visited so far are the given ones, in order
VisitedInOrder ==
    /\ Len(contact_run.visited) + Len(contact_run.contact_ids) = Len(contact_run.given)
    /\ \A i \in 1..Len(contact_run.visited) :
          contact_run.visited[i].contact_id = contact_run.given[i]
    /\ contact_run.pc = "done" => contact_run.contact_ids = <<>>

\* C20 as stated: call_contacts visits the given ids in order and never calls
\* an id that is not a contact, a contact whose status is not NOT_REACHED or
\* whose num_attempts is >= max_attempts; every other contact in the list is
\* called once per run.
C20_CallsOnlyEligibleOnce ==
    /\ VisitedInOrder
    /\ \A i \in 1..Len(contact_run.visited) :
          LET v == contact_run.visited[i]
          IN  /\ v.called => IsContact(v.contact_id)
              /\ v.called => ~ Barred(v.row, contact_run.maximum_attempts)
              /\ (IsContact(v.contact_id) /\ ~ Barred(v.row, contact_run.maximum_attempts))
                    => v.called
              /\ v.called => \A j \in 1..Len(contact_run.visited) :
                                (j # i /\ contact_run.visited[j].called) =>
                                    contact_run.visited[j].contact_id # v.contact_id

\* C20: call_contacts visits the given ids in order, until a call raises; at
\* each visit it calls the id exactly if it is a contact that has no status row
\* yet (whatever max_attempts is), or whose status is NOT_REACHED with
\* num_attempts < max_attempts at that moment; an id listed twice is visited
\* twice.
C20_CallsEligibleAtEachVisit ==
    /\ VisitedInOrder
    /\ \A i \in 1..Len(contact_run.visited) :
          LET v == contact_run.visited[i]
              eligible ==
                  /\ IsContact(v.contact_id)
                  /\ \/ ~ v.row.present
                     \/ /\ v.row.status = "NOT_REACHED"
                        /\ v.row.num_attempts < contact_run.maximum_attempts
          IN  v.called <=> eligible
    /\ contact_run.pc = "raised" =>
          /\ contact_run.visited # <<>>
          /\ contact_run.visited[Len(contact_run.visited)].called
          /\ last_call.raised

\* a finished run that called its first id and skipped its second, a contact
\* with a status row
C20_Witness ==
    /\ contact_run.pc = "done"
    /\ Len(contact_run.visited) = 2
    /\ contact_run.visited[1].called
    /\ ~ contact_run.visited[2].called
    /\ IsContact(contact_run.visited[2].contact_id)
    /\ contact_run.visited[2].row.present

\* ------------------------------------------ properties: the engine's branches

\* C22: constructing an engine from a config that lacks the reserved path
\* entry or the reserved path aborted fails at construction, before any step
\* can run.
C22_MissingReservedPathFailsConstruction ==
    (ReservedPaths \ DOMAIN conversation_template # {}) =>
        (walker = "unconstructed" /\ steps = 0)

\* C24: constructing an engine and running steps on it leaves the config object
\* given to the constructor unchanged, and an engine built next from the same
\* object starts IN_PROGRESS at the first entry item with the rest of the entry
\* path and every other path complete.
C24_TemplateUnchanged ==
    /\ [][ conversation_template' = conversation_template ]_vars
    /\ [][ extractors' # extractors =>
             /\ current_item' = Head(conversation_template["entry"])
             /\ conversation_config' =
                    [conversation_template EXCEPT !["entry"] = Tail(@)]
             /\ status' = "IN_PROGRESS"
             /\ walker' = "idle" ]_vars

\* the first engine has returned the fragments of both items of its entry path
\* and a second engine was built from the same config: it has the whole path
C24_Witness ==
    /\ extractors = MaxExtractors
    /\ walker = "idle"
    /\ steps = 0
    /\ returned.kind = "returned"
    /\ Len(returned.fragments) = 2
    /\ Len(conversation_template["entry"]) = 2
    /\ current_item = Head(conversation_template["entry"])
    /\ conversation_config = [conversation_template EXCEPT !["entry"] = Tail(@)]

\* C26: once the Abort branch has replaced the queue with the aborted path, the
\* status is still ABORTED when the items of the aborted path are used up,
\* whatever they are and however many step calls they take.
C26_AbortedStatusKept ==
    (conversation_items = "aborted" /\ walker = "idle"
        /\ conversation_config["aborted"] = <<>>)
        => status = "ABORTED"

\* the walker of the running step handles an item of the given type and its
\* verifier's output is one of `outputs`
Verified(type, outputs) ==
    /\ current_item.type = type
    /\ WalkerActs
    /\ verification' \in outputs

\* the fragments the running step has when the walker has acted
FragmentsAfter == IF walker' = "walking" THEN collected_responses' ELSE returned'.fragments

\* C27: when the verifier answers YES for the current information item, the
\* same step starts the filter task, pops the next item and keeps walking, the
\* fragments of the following items coming in item order after those emitted
\* before; with the queue used up (outside aborted mode) the status becomes
\* COMPLETED.
C27_YesStartsFilterAndWalksOn ==
    /\ [][ Verified("information", {"YES"}) =>
             /\ filter_waiting' =
                    [filter_waiting EXCEPT ![current_item.arg] = @ + 1]
             /\ IF Len(conversation_config[conversation_items]) > 0
                THEN /\ current_item' = Head(conversation_config[conversation_items])
                     /\ conversation_config' =
                            [conversation_config EXCEPT ![conversation_items] = Tail(@)]
                     /\ conversation_items' = conversation_items
                     /\ walker' = "walking"
                     /\ collected_responses' = collected_responses
                     /\ status' = status
                ELSE ~ aborted =>
                        /\ status' = "COMPLETED"
                        /\ walker' = "idle"
                        /\ returned'.kind = "returned" ]_vars
    /\ [][ (WalkerActs /\ returned'.kind # "raised") =>
             \/ FragmentsAfter = collected_responses
             \/ /\ Len(FragmentsAfter) = Len(collected_responses) + 1
                /\ SubSeq(FragmentsAfter, 1, Len(collected_responses)) = collected_responses
                /\ FragmentsAfter[Len(FragmentsAfter)].kind = current_item.type ]_vars

\* one step walked a read item, the path sub with its information item, which
\* was verified YES, and the function item after it, and completed
C27_Witness ==
    /\ StepReturned
    /\ steps = 1
    /\ status = "COMPLETED"
    /\ verified_yes = {"t1"}
    /\ returned.fragments =
          << [text |-> <<"Hi", "\n">>, kind |-> "read"],
             [text |-> <<"plugin", "read_fibonacci">>, kind |-> "function"] >>

\* C28: when the verifier answers NO for the current information item, the step
\* returns, after the fragments it had, exactly one fragment of kind
\* information for that item; a status IN_PROGRESS stays, the extracted
\* information is unchanged and no filter is started, and the same item with
\* the same remaining queue is the current item when the next step starts.
C28_NoAsksAgain ==
    /\ [][ (Verified("information", {"NO"}) /\ returned'.kind # "raised") =>
             /\ walker' = "idle"
             /\ returned'.kind = "returned"
             /\ returned'.fragments =
                    Append(collected_responses,
                           [text |-> <<"llm", current_item.arg>>, kind |-> "information"])
             /\ status' = status
             /\ extracted_information' = extracted_information
             /\ filter_waiting' = filter_waiting
             /\ UNCHANGED << current_item, conversation_items, conversation_config >>
         ]_vars
    /\ [][ (walker = "idle" /\ walker' = "walking") =>
             UNCHANGED << current_item, conversation_items, conversation_config,
                          status >> ]_vars

\* the second step on the same information item was answered NO as well
C28_Witness ==
    /\ StepReturned
    /\ steps = 2
    /\ verification = "NO"
    /\ status = "IN_PROGRESS"
    /\ current_item = InformationItem("t1", FALSE)
    /\ conversation_config["entry"] # <<>>
    /\ returned.fragments = << [text |-> <<"llm", "t1">>, kind |-> "information"] >>

\* the fragment an item gives when the walker handles it
ItemFragment(item, f) ==
    /\ f.kind = item.type
    /\ item.type = "read" => f.text = << item.arg, "\n" >>

\* the last fragments are those of the items of path, one each and in order
EndsWithFragmentsOf(fragments, path) ==
    /\ Len(fragments) >= Len(path)
    /\ \A i \in 1..Len(path) :
          ItemFragment(path[i], fragments[Len(fragments) - Len(path) + i])

\* the entry path has no choice item: only an information item can abort
OnlyInformationAborts ==
    \A i \in 1..Len(conversation_template["entry"]) :
        conversation_template["entry"][i].type # "choice"

\* C29: when the information verifier outputs ABORT or any text other than YES
\* and NO, the status becomes ABORTED, the queue is replaced by the aborted
\* path, no filter task is started and nothing is added to the extracted
\* information, and the step returns the fragments of the aborted path's items.
C29_AbortWalksAbortedPath ==
    /\ [][ Verified("information", InformationVerdicts \ {"YES", "NO"}) =>
             /\ status' = "ABORTED"
             /\ conversation_items' = "aborted"
             /\ filter_waiting' = filter_waiting
             /\ extracted_information' = extracted_information ]_vars
    /\ [] ( (StepReturned /\ call_status = "IN_PROGRESS"
               /\ conversation_items = "aborted" /\ OnlyInformationAborts) =>
              /\ status = "ABORTED"
              /\ EndsWithFragmentsOf(returned.fragments,
                                     conversation_template["aborted"]) )

\* C30: for a choice item, a verifier output equal to an option key replaces
\* the queue with that option's items and the step walks on; ##NONE## returns
\* one fragment of kind choice and keeps the choice item current, a status
\* IN_PROGRESS staying; ##ABORT## enters the aborted path with status ABORTED.
C30_ChoiceBranches ==
    [][ /\ Verified("choice", DOMAIN current_item.options) =>
             LET option == current_item.options[verification']
             IN  /\ conversation_items' = option
                 /\ current_item' = Head(conversation_config[option])
                 /\ conversation_config' =
                        [conversation_config EXCEPT ![option] = Tail(@)]
                 /\ walker' = "walking"
                 /\ collected_responses' = collected_responses
                 /\ status' = status
        /\ (Verified("choice", {"##NONE##"}) /\ returned'.kind # "raised") =>
             /\ walker' = "idle"
             /\ returned'.kind = "returned"
             /\ returned'.fragments =
                    Append(collected_responses,
                           [text |-> <<"llm", current_item.arg>>, kind |-> "choice"])
             /\ status' = status
             /\ UNCHANGED << current_item, conversation_items, conversation_config >>
        /\ Verified("choice", {"##ABORT##"}) =>
             /\ status' = "ABORTED"
             /\ conversation_items' = "aborted"
      ]_vars

\* the choice item was asked again after ##NONE##, and on the option key tea
\* the step walked the option's interactive read item and returned
C30_Witness ==
    /\ StepReturned
    /\ steps = 2
    /\ verification = "tea"
    /\ conversation_items = "opt_tea"
    /\ current_item = FunctionItem
    /\ status = "IN_PROGRESS"
    /\ returned.fragments = << [text |-> <<"tea", "\n">>, kind |-> "read"] >>

\* ---------------------------------------------------- properties: recording

\* C25: when recording finds the audio media of the call inactive,
\* __record_incoming_audio waits a second and retries, at most
\* unavailable_media_timeout times; with the timeout used up it gives up and
\* listen returns "##INTERRUPTED##".
C25_MediaWaitIsBounded ==
    /\ [] (\A s \in Devices : listen[s].retries <= MaxMediaWait)
    /\ [][ \A s \in Devices :
             (listen[s].pc = "media_wait" /\ listen'[s] # listen[s]) =>
                IF listen[s].waited >= MaxMediaWait
                THEN /\ listen'[s].pc = "idle"
                     /\ listen'[s].result = "##INTERRUPTED##"
                ELSE \/ listen'[s].retries = listen[s].retries + 1
                     \/ listen'[s].result = "raised" ]_vars

\* the call is still there, its media was found inactive until the timeout was
\* used up, and listen returned the sentinel
C25_Witness ==
    \E s \in Devices :
        /\ active_call[s] # NoCall
        /\ listen[s].pc = "idle"
        /\ listen[s].result = "##INTERRUPTED##"
        /\ listen[s].waited >= MaxMediaWait
        /\ listen[s].retries = MaxMediaWait - 1

\* ------------------------------------------- properties: errors in a call

\* C21: if the LLM provider fails inside a step of a call_contact dialogue, the
\* step returns to call_e, which treats the dialogue as aborted: call_contact
\* returns and the contact's status is ABORTED.
C21_ProviderFailureMarksAborted ==
    last_call.error = "LlmError" =>
        /\ ~ last_call.raised
        /\ status_table[last_call.contact_id].status = "ABORTED"

\* C23: if a SQL operation fails during call_contact, the error reaches the
\* caller of call_contact and the persisted status of the contact is the one it
\* had before the failing operation, also after a later commit on the
\* connection.
C23_SqlFailureLeavesStatus ==
    last_call.error = "OperationalError" =>
        /\ last_call.raised
        /\ persisted_status[last_call.contact_id] = last_call.row_dialled

\* ----------------------------------------------- properties: paths and queues

StaleLeg(l) ==
    /\ call_softphone[l] # NoCall
    /\ active_call[call_softphone[l]] # l
    /\ paired_call[call_softphone[l]] # l

\* C32: a disconnection callback delivered for a leg that is no longer the
\* session's active or paired leg never tears down another leg that has since
\* been bound to the same session.
C32_StaleCallbackTearsNothingDown ==
    [][ \A l \in Legs :
          ( /\ StaleLeg(l)
            /\ call_state[l] \in LiveStates \cup {"HUNGUP"}
            /\ call_state'[l] = "DISCONNECTED" ) =>
              /\ active_call' = active_call
              /\ paired_call' = paired_call
              /\ \A m \in Legs \ {l} : call_state'[m] = call_state[m] ]_vars

\* the pool binds an incoming call to session s
BoundToIncoming(s) ==
    /\ active_call[s] = NoCall
    /\ active_call'[s] # NoCall
    /\ call_op'[active_call'[s]].op = "answer"

\* C33: every incoming call answered by a pool session is driven by an engine
\* built for that call: a session is never bound to a new incoming call while
\* its worker is still in the conversation of the call before.
C33_NoBindingDuringConversation ==
    [][ \A s \in Devices : BoundToIncoming(s) => worker[s] # "conversation" ]_vars

\* no callback reports the end of a leg in this step
NoLegEnds == \A l \in Legs : call_state'[l] = "DISCONNECTED" => call_state[l] = "DISCONNECTED"

\* C37: the inbound listener worker never calls hangup() on its session while
\* the session is forwarded: a bridged call stays bridged until a leg ends,
\* also when the conversation is still IN_PROGRESS after the forward.
C37_NoWorkerHangupWhileForwarded ==
    [][ \A s \in Devices :
          ( /\ IsForwarded(s)
            /\ worker[s] \in {"conversation", "wait_forwarded"}
            /\ forwarding[s] = NoCall
            /\ NoLegEnds ) =>
              /\ paired_call'[s] = paired_call[s]
              /\ active_call'[s] = active_call[s] ]_vars

\* stop_listening was called and every listener thread has ended
PoolStopped == ~ is_listening /\ \A s \in Devices : worker[s] = "exited"

\* C39: after stop_listening has been called and all listener workers have
\* exited, an incoming call is no longer answered or bound to a session.
C39_StoppedPoolTakesNoCall ==
    [][ PoolStopped => \A s \in Devices : ~ BoundToIncoming(s) ]_vars

\* ------------------------------------------------ properties: attempts of runs

\* C38: for every max_attempts m >= 0 and any number of call_contacts runs with
\* max_attempts = m, starting from an empty status table, no contact's
\* num_attempts ever exceeds m.
C38_AttemptsWithinMaximum ==
    contact_run.pc # "idle" =>
        \A c \in Contacts : status_table[c].num_attempts <= contact_run.maximum_attempts

\* C38, amended: the first call to a contact is made whatever m is, so over
\* such runs no contact's num_attempts exceeds m, or 1 when m = 0.
C38_AttemptsWithinMaximumOrFirst ==
    contact_run.pc # "idle" =>
        \A c \in Contacts :
            status_table[c].num_attempts <=
                (IF contact_run.maximum_attempts = 0 THEN 1
                 ELSE contact_run.maximum_attempts)

\* a later run with m = 1 has visited a contact that was tried once and not
\* reached, and did not call it
C38_Witness ==
    /\ contact_run.maximum_attempts = 1
    /\ Len(contact_run.visited) > 0
    /\ LET visit == contact_run.visited[1]
       IN  /\ IsContact(visit.contact_id)
           /\ visit.row = StatusRow(1, "NOT_REACHED")
           /\ ~ visit.called
           /\ Len(contact_run.given) = 1
           /\ status_table[visit.contact_id].num_attempts = 1

\* --------------------------------------------------- properties: the TTS stream

\* the chunks 1..n of the TTS stream of a message, in the order received
Received(message, n) == [i \in 1..n |-> Chunk(message, i)]

\* C35: in the streaming path of say, every chunk of at least 512 bytes
\* received from the TTS stream is transmitted to the call exactly once, in the
\* order received, before say returns, and the audio written to the cache
\* holds exactly those chunks.
C35_EveryChunkPlayedAndCached ==
    [][ \A s \in Devices :
          ( /\ say[s].pc = "streaming"
            /\ say[s].chunks_left = 0
            /\ say'[s].pc = "idle" ) =>
              /\ say[s].played = Received(say[s].message, say[s].players)
              /\ say[s].cache_audio =>
                    cache'[CacheKey(say[s].message)] =
                        Received(say[s].message, say[s].players) ]_vars

\* ------------------------------------------- properties: the information mutex

\* every filter thread that was started has ended
FiltersEnded ==
    /\ \A t \in Titles : filter_waiting[t] = 0
    /\ information_lock \notin Titles

\* C34: the information mutex is always released in the end: also after the
\* LLM call of a filter thread has failed, a get_information() call and a
\* function or function_choice item still acquire the mutex and proceed.
C34_MutexReleasedAfterFilters ==
    FiltersEnded =>
        /\ walker = "idle" => ENABLED GetInformation
        /\ (walker = "walking" /\ current_item.type = "function") => ENABLED WalkFunction
        /\ (walker = "walking" /\ current_item.type = "function_choice") =>
              ENABLED WalkFunctionChoice

\* ------------------------------------------------- properties: recursive configs

RECURSIVE ItemsIn(_, _)
\* the number of items in the lists `ids` of a config
ItemsIn(config, ids) ==
    IF ids = {} THEN 0
    ELSE LET id == CHOOSE i \in ids : TRUE
         IN  Len(config[id]) + ItemsIn(config, ids \ {id})

ItemsLeft == ItemsIn(conversation_config, DOMAIN conversation_config)

\* C40: every step call terminates for every finite config, also when path,
\* choice or function_choice items lead back to paths already visited: a list
\* only ever loses its first item, every item the walker processes either ends
\* the step or is followed by popping one item, so each item is popped at most
\* once and the items processed over all steps are bounded by the size of the
\* config plus the number of step calls.
C40_EveryItemPoppedOnce ==
    [][ /\ \A id \in DOMAIN conversation_config :
              \/ conversation_config'[id] = conversation_config[id]
              \/ /\ Len(conversation_config[id]) > 0
                 /\ conversation_config'[id] = Tail(conversation_config[id])
                 /\ current_item' = Head(conversation_config[id])
        /\ WalkerActs => (walker' = "idle" \/ ItemsLeft' = ItemsLeft - 1)
        /\ ItemsLeft' <= ItemsLeft ]_vars

\* the walker went from entry to sub and back to what was left of entry, and
\* finished there
C40_Witness ==
    /\ conversation_template["entry"] = << PathItem("sub"), ReadItem("Hi", FALSE) >>
    /\ conversation_items = "entry"
    /\ conversation_config["entry"] = <<>>
    /\ conversation_config["sub"] = <<>>
    /\ current_item = ReadItem("Hi", FALSE)
    /\ status = "COMPLETED"
    /\ walker = "idle"
    /\ steps = 1

\* ---------------------------------------------- properties: the dialogue loops

\* C36: the sentinel "##INTERRUPTED##" returned by listen is never passed to
\* the engine's step as user input, neither by the outbound dialogue loop nor
\* by the inbound listener worker.
C36_SentinelNeverStepInput == user_input # "##INTERRUPTED##"

====
